---- MODULE Spec2Model ----
(***************************************************************************)
(* A model of the acquisition-and-fusion core of the NSA agricultural      *)
(* services: the dataset acquirer of services/nasa-data-ingest, and the    *)
(* fusion engine and its request handler of services/data-fusion-engine.   *)
(*                                                                         *)
(* Numbers are exact rationals <<n, d>> (d > 0, lowest terms), so the      *)
(* arithmetic of the index computations is the arithmetic of the source    *)
(* over the reals.                                                         *)
(***************************************************************************)
EXTENDS Integers, Sequences, FiniteSets, TLC

(***************************************************************************)
(* Part 1.  nasa-data-ingest: NASADataManager.bulk_data_fetch,             *)
(* _fetch_dataset and the background task process_data_ingestion.          *)
(***************************************************************************)

\* The ids the if-chain of _fetch_dataset dispatches on.
KnownDatasets ==
    {"smap_l3", "smap_l4", "modis_vegetation", "modis_lst",
     "gpm", "ecostress", "grace", "landsat"}

\* The ids a modelled ingestion request draws from: two known ids and one
\* that the if-chain does not know.
RequestIds == {"smap_l3", "gpm", "weather_radar"}

\* The longest modelled request list.
MaxSlots == 2

\* A retry loop that would allow one attempt more than the source's.
max_retries_plus_one == 3 + 1

\* max_retries of _fetch_dataset.
max_retries == 3

VARIABLES
    ingest_pc,      \* process_data_ingestion / ingest_nasa_data: where the request is
    datasets,       \* request.datasets, a sequence of ids (duplicates allowed)
    fpc,            \* per slot: position of its _fetch_dataset coroutine
    attempt,        \* per slot: the loop variable `attempt` of _fetch_dataset
    outcomes,       \* per slot: the outcome of each attempt made so far, in order
    waits,          \* per slot: the asyncio.sleep durations incurred so far, in order
    results,        \* per slot: what asyncio.gather collects for it
    data_results    \* the map bulk_data_fetch returns

acqVars ==
    <<ingest_pc, datasets, fpc, attempt, outcomes, waits, results, data_results>>

\* The state of the fusion service (Part 2); the acquisition leaves it alone.
VARIABLES
    request,        \* the FusionRequest posted to compute_unified_metrics
    hpc,            \* compute_unified_metrics: where the handler is
    response,       \* what the caller of compute_unified_metrics receives
    raw_data,       \* the raw-data map handed to the index computations
    crop_arg,       \* the crop_type argument of the AWLI and PAOI computations
    pest_arg,       \* the target_pest argument of the PAOI computation
    usmi,           \* the result of compute_unified_soil_moisture_index
    awli,           \* the result of compute_agricultural_water_level_indicator
    paoi            \* the result of compute_pesticide_application_optimization_index

fusionVars ==
    <<request, hpc, response, raw_data, crop_arg, pest_arg, usmi, awli, paoi>>

\* The state of the steps that follow the index computations.
VARIABLES
    hash_seed,        \* the string-hash seed of the Python process (PYTHONHASHSEED)
    alerts,           \* the list generate_alerts returned
    recommendations,  \* the list generate_integrated_recommendations returned
    rerun,            \* the results of a second run of the index computations
    category,         \* what USMI.get_category returned
    water_status      \* what _assess_water_requirement_status returned

aggVars == <<hash_seed, alerts, recommendations, rerun, category, water_status>>

\* The arguments and results of the arithmetic helpers called on their own.
VARIABLES
    div_numerator,    \* the numerator handed to _safe_divide
    div_denominator,  \* the denominator handed to _safe_divide
    div_result,       \* what _safe_divide returned
    stress_ndvi,      \* the ndvi_data handed to _calculate_vegetation_water_stress
    stress_lst,       \* the lst_data handed to _calculate_vegetation_water_stress
    stress_result     \* what _calculate_vegetation_water_stress returned

fnVars == <<div_numerator, div_denominator, div_result, stress_ndvi, stress_lst, stress_result>>

\* The state of the WebSocket service.
VARIABLES
    active_connections,  \* ConnectionManager.active_connections, in insertion order
    farm_subscriptions,  \* ConnectionManager.farm_subscriptions: farm_id -> list of ids
    websocket_farms,     \* ConnectionManager.websocket_farms: id -> farm_id
    ws_handlers,         \* the websocket_farm_monitoring coroutine of each client
    ws_clock,            \* the last reading of datetime.now()
    broken,              \* the websockets whose send_text raises
    last_send            \* what the last send_to_farm or broadcast_to_all did

wsVars == <<active_connections, farm_subscriptions, websocket_farms, ws_handlers, ws_clock, broken, last_send>>


Slots == 1..Len(datasets)

RECURSIVE Pow2(_)
Pow2(k) == IF k = 0 THEN 1 ELSE 2 * Pow2(k - 1)

\* Values collected by gather, and of the returned map, in one record shape.
NoResult == [kind |-> "pending", dataset |-> "", attempt |-> 0]
None == [kind |-> "None", dataset |-> "", attempt |-> 0]
Record(d, k) == [kind |-> "record", dataset |-> d, attempt |-> k]
Raised(d, k) == [kind |-> "exception", dataset |-> d, attempt |-> k]

RequestLists ==
    UNION {[1..n -> RequestIds] : n \in 0..MaxSlots}

AcqInit ==
    /\ ingest_pc = "received"
    /\ datasets \in RequestLists
    /\ fpc = [i \in Slots |-> "created"]
    /\ attempt = [i \in Slots |-> 0]
    /\ outcomes = [i \in Slots |-> <<>>]
    /\ waits = [i \in Slots |-> <<>>]
    /\ results = [i \in Slots |-> NoResult]
    /\ data_results = <<>>

\* ingest_nasa_data: an empty dataset list raises HTTPException(400) inside
\* the try block, which the handler's `except Exception` turns into a 500;
\* otherwise the background task is queued.
ingest_nasa_data ==
    /\ ingest_pc = "received"
    /\ ingest_pc' = IF datasets = <<>> THEN "http_500" ELSE "started"
    /\ UNCHANGED <<fusionVars, aggVars, wsVars, fnVars, datasets, fpc, attempt, outcomes, waits, results, data_results>>

\* process_data_ingestion calls bulk_data_fetch, which creates one
\* _fetch_dataset coroutine per requested id and awaits asyncio.gather.
bulk_data_fetch_start ==
    /\ ingest_pc = "started"
    /\ ingest_pc' = "gathering"
    /\ fpc' = [i \in Slots |-> "ready"]
    /\ UNCHANGED <<fusionVars, aggVars, wsVars, fnVars, datasets, attempt, outcomes, waits, results, data_results>>

\* A backoff that would grow linearly (1, 3, ...) instead of doubling.
backoff_wait_linear(k) == 2 * k + 1

\* The argument of asyncio.sleep in _fetch_dataset: 2 ** attempt.
backoff_wait(k) == Pow2(k)

is_last_attempt(k) == k = max_retries - 1

\* The `except Exception` block of _fetch_dataset, entered by slot i when its
\* current attempt raised: re-raise on the last attempt, else sleep 2**attempt.
OnException(i) ==
    /\ outcomes' = [outcomes EXCEPT ![i] = Append(@, "raised")]
    /\ IF is_last_attempt(attempt[i])
       THEN /\ fpc' = [fpc EXCEPT ![i] = "failed"]
            /\ results' = [results EXCEPT ![i] = Raised(datasets[i], attempt[i] + 1)]
            /\ waits' = waits
       ELSE /\ fpc' = [fpc EXCEPT ![i] = "sleeping"]
            /\ waits' = [waits EXCEPT ![i] = Append(@, backoff_wait(attempt[i]))]
            /\ results' = results
    /\ UNCHANGED <<fusionVars, aggVars, wsVars, fnVars, ingest_pc, datasets, attempt, data_results>>

\* Whether the if-chain of _fetch_dataset has a branch for id d.
is_known_dataset(d) == d \in KnownDatasets

\* Slot i runs the try block for the current value of `attempt`: a known id
\* awaits its fetcher, any other id raises ValueError inside the try block.
fetch_dataset_known(i) ==
    /\ ingest_pc = "gathering"
    /\ fpc[i] = "ready"
    /\ is_known_dataset(datasets[i])
    /\ fpc' = [fpc EXCEPT ![i] = "fetching"]
    /\ UNCHANGED <<fusionVars, aggVars, wsVars, fnVars, ingest_pc, datasets, attempt, outcomes, waits, results, data_results>>

fetch_dataset_unknown(i) ==
    /\ ingest_pc = "gathering"
    /\ fpc[i] = "ready"
    /\ ~is_known_dataset(datasets[i])
    /\ OnException(i)

\* The awaited fetcher of slot i returns a record: _fetch_dataset returns it.
returned_record(i) == Record(datasets[i], attempt[i] + 1)

fetch_returns(i) ==
    /\ fpc[i] = "fetching"
    /\ fpc' = [fpc EXCEPT ![i] = "done"]
    /\ outcomes' = [outcomes EXCEPT ![i] = Append(@, "returned")]
    /\ results' = [results EXCEPT ![i] = returned_record(i)]
    /\ UNCHANGED <<fusionVars, aggVars, wsVars, fnVars, ingest_pc, datasets, attempt, waits, data_results>>

\* The awaited fetcher of slot i raises: a failure of the source, or the
\* AttributeError of date_range.start_iso when the caller hands over the
\* request's pydantic DateRange, which has no such property.
fetch_raises(i) ==
    /\ fpc[i] = "fetching"
    /\ OnException(i)

\* asyncio.sleep of slot i ends: the for loop moves to the next attempt.
sleep_ends(i) ==
    /\ fpc[i] = "sleeping"
    /\ fpc' = [fpc EXCEPT ![i] = "ready"]
    /\ attempt' = [attempt EXCEPT ![i] = @ + 1]
    /\ UNCHANGED <<fusionVars, aggVars, wsVars, fnVars, ingest_pc, datasets, outcomes, waits, results, data_results>>

\* A slot is terminal when its coroutine has returned or re-raised.
SlotTerminal(i) == fpc[i] \in {"done", "failed"}

\* A gather that would complete with its first completed task.
gather_first_completed == \E i \in Slots : SlotTerminal(i)

\* asyncio.gather(*tasks, return_exceptions=True) completes when every task has.
gather_ready == \A i \in Slots : SlotTerminal(i)

\* The loop over zip(datasets, results): exceptions become None, in list order,
\* a later entry for the same id overwriting an earlier one.
Put(m, d, v) == [x \in DOMAIN m \cup {d} |-> IF x = d THEN v ELSE m[x]]

RECURSIVE Organize(_, _)
Organize(k, m) ==
    IF k > Len(datasets) THEN m
    ELSE Organize(k + 1,
            Put(m, datasets[k],
                IF results[k].kind = "exception" THEN None ELSE results[k]))

bulk_data_fetch_return ==
    /\ ingest_pc = "gathering"
    /\ gather_ready
    /\ data_results' = Organize(1, <<>>)
    /\ ingest_pc' = "fetched"
    /\ UNCHANGED <<fusionVars, aggVars, wsVars, fnVars, datasets, fpc, attempt, outcomes, waits, results>>

\* process_data_ingestion after bulk_data_fetch: store_raw_data, then
\* notify_completion records the task as completed.
notify_completion ==
    /\ ingest_pc = "fetched"
    /\ ingest_pc' = "completed"
    /\ UNCHANGED <<fusionVars, aggVars, wsVars, fnVars, datasets, fpc, attempt, outcomes, waits, results, data_results>>

\* The steps the event loop itself takes: a runnable coroutine runs, a due
\* sleep ends, a completed gather resumes its caller.  The completion of an
\* awaited fetcher (fetch_returns, fetch_raises) is the data source's step.
SchedStep ==
    \/ ingest_nasa_data
    \/ bulk_data_fetch_start
    \/ \E i \in Slots : fetch_dataset_known(i)
    \/ \E i \in Slots : fetch_dataset_unknown(i)
    \/ \E i \in Slots : sleep_ends(i)
    \/ bulk_data_fetch_return
    \/ notify_completion

AcqNext ==
    \/ ingest_nasa_data
    \/ bulk_data_fetch_start
    \/ \E i \in Slots : fetch_dataset_known(i)
    \/ \E i \in Slots : fetch_dataset_unknown(i)
    \/ \E i \in Slots : fetch_returns(i)
    \/ \E i \in Slots : fetch_raises(i)
    \/ \E i \in Slots : sleep_ends(i)
    \/ bulk_data_fetch_return
    \/ notify_completion

(***************************************************************************)
(* Exact rational arithmetic.  A number is <<n, d>> with d > 0 in lowest   *)
(* terms, so equal numbers are equal values.                               *)
(***************************************************************************)

Abs(x) == IF x < 0 THEN -x ELSE x

RECURSIVE GCD(_, _)
GCD(a, b) == IF b = 0 THEN a ELSE GCD(b, a % b)

R(n, d) ==
    LET g == GCD(Abs(n), Abs(d))
        s == IF d < 0 THEN -1 ELSE 1
    IN  <<(s * n) \div g, (s * d) \div g>>

Zero == <<0, 1>>
One == <<1, 1>>
Half == <<1, 2>>

RAdd(a, b) == R(a[1] * b[2] + b[1] * a[2], a[2] * b[2])
RSub(a, b) == R(a[1] * b[2] - b[1] * a[2], a[2] * b[2])
RMul(a, b) == R(a[1] * b[1], a[2] * b[2])
RDiv(a, b) == R(a[1] * b[2], a[2] * b[1])
RLt(a, b) == a[1] * b[2] < b[1] * a[2]
RLe(a, b) == a[1] * b[2] <= b[1] * a[2]
RMax(a, b) == IF RLt(a, b) THEN b ELSE a
RMin(a, b) == IF RLt(b, a) THEN b ELSE a
RAbs(a) == <<Abs(a[1]), a[2]>>
InUnit(a) == RLe(Zero, a) /\ RLe(a, One)

\* floor of a rational (int() of a non-negative float).
RFloor(a) == a[1] \div a[2]

RECURSIVE RSum(_)
RSum(seq) == IF seq = <<>> THEN Zero ELSE RAdd(Head(seq), RSum(Tail(seq)))

(***************************************************************************)
(* Part 2.  data-fusion-engine: the raw-data map and the index             *)
(* computations of AgriculturalDataFusionEngine.                           *)
(***************************************************************************)

\* The dataset ids the fusion engine reads, in the order of the default
\* request of compute_unified_metrics.
AllDatasets ==
    <<"smap_l3", "smap_l4", "modis_vegetation", "modis_lst",
      "gpm", "ecostress", "grace", "landsat">>

DatasetSet == {AllDatasets[i] : i \in 1..Len(AllDatasets)}

\* A raw record is a Python dict: a function from the field names it holds.
\* dict.get(key, default):
Get(data, key, default) == IF key \in DOMAIN data THEN data[key] ELSE default

\* isinstance(data, dict): a record of the raw map is a dictionary or the
\* marker None that bulk_data_fetch writes for a failed slot.
IsDict(data) == data # None

\* The datasets each index computation reads from the raw-data map.
UsmiDatasets == {"smap_l3", "smap_l4", "gpm", "modis_lst", "ecostress"}
AwliDatasets == {"grace", "smap_l4", "modis_vegetation", "modis_lst", "gpm",
                 "ecostress", "landsat"}
PaoiDatasets == {"modis_vegetation", "modis_lst", "gpm"}

\* raw.get(key, {}) returns None, not the default, for a key that is present
\* and holds None; the .get called on it next raises AttributeError.
reads_none(raw, keys) == \E k \in keys \cap DOMAIN raw : ~IsDict(raw[k])

EmptyDict == <<>>

\* The records a modelled raw-data map draws from, per dataset: "typical" is
\* a record of _generate_mock_nasa_data (values inside its ranges, its
\* fields, its flag); "high" and "low" hold values above and below the
\* normalisation ranges, with the other quality flags.
Candidate(ds, c) ==
    CASE ds = "smap_l3" ->
           (CASE c = "typical" -> [surface_moisture |-> R(3, 10), quality_flag |-> "good",
                                   uncertainty |-> R(1, 10)]
              [] c = "high" -> [surface_moisture |-> R(3, 5), quality_flag |-> "good"]
              [] c = "low" -> [surface_moisture |-> R(-1, 10), quality_flag |-> "marginal"])
      [] ds = "smap_l4" ->
           (CASE c = "typical" -> [root_zone_moisture |-> R(1, 5), surface_moisture |-> R(1, 5),
                                   quality_flag |-> "good"]
              [] c = "high" -> [root_zone_moisture |-> R(7, 10), surface_moisture |-> R(3, 5),
                                quality_flag |-> "good"]
              [] c = "low" -> [surface_moisture |-> R(0, 1), quality_flag |-> "degraded"])
      [] ds = "modis_vegetation" ->
           (CASE c = "typical" -> [ndvi |-> R(1, 2), evi |-> R(2, 5), pixel_reliability |-> R(1, 1)]
              [] c = "high" -> [ndvi |-> R(4, 5), evi |-> R(3, 5), pixel_reliability |-> R(0, 1),
                                quality_flag |-> "good"]
              [] c = "low" -> [ndvi |-> R(1, 5), evi |-> R(1, 5), pixel_reliability |-> R(2, 1),
                               quality_flag |-> "marginal"])
      [] ds = "modis_lst" ->
           (CASE c = "typical" -> [day_lst |-> R(30, 1), night_lst |-> R(10, 1),
                                   quality_flag |-> "good"]
              [] c = "high" -> [day_lst |-> R(45, 1), night_lst |-> R(25, 1), average |-> R(32, 1),
                                quality_flag |-> "good"]
              [] c = "low" -> [day_lst |-> R(-10, 1), night_lst |-> R(-20, 1), average |-> R(0, 1),
                               quality_flag |-> "cloudy"])
      [] ds = "gpm" ->
           (CASE c = "typical" -> [precipitation_rate |-> R(2, 1), precipitation_cal |-> R(14, 1),
                                   quality_flag |-> "good"]
              [] c = "high" -> [precipitation_rate |-> R(10, 1), precipitation_cal |-> R(70, 1),
                                probability_of_precipitation |-> R(1, 1), quality_flag |-> "good"]
              [] c = "low" -> [precipitation_rate |-> R(0, 1), precipitation_cal |-> R(0, 1),
                               probability_of_precipitation |-> R(0, 1),
                               quality_flag |-> "marginal"])
      [] ds = "ecostress" ->
           (CASE c = "typical" -> [et_actual |-> R(4, 1), et_potential |-> R(6, 1),
                                   land_surface_temperature |-> R(30, 1)]
              [] c = "high" -> [et_actual |-> R(8, 1), et_potential |-> R(80, 1),
                                land_surface_temperature |-> R(40, 1), quality_flag |-> "good"]
              [] c = "low" -> [et_actual |-> R(9, 1), et_potential |-> R(2, 1),
                               quality_flag |-> "bad"])
      [] ds = "grace" ->
           (CASE c = "typical" -> [groundwater_anomaly |-> R(2, 1), soil_moisture_anomaly |-> R(1, 1),
                                   uncertainty |-> R(2, 1)]
              [] c = "high" -> [groundwater_anomaly |-> R(10, 1), soil_moisture_anomaly |-> R(5, 1),
                                uncertainty |-> R(1, 1), quality_flag |-> "good"]
              [] c = "low" -> [groundwater_anomaly |-> R(-10, 1), quality_flag |-> "marginal"])
      [] ds = "landsat" ->
           (CASE c = "typical" -> [ndvi |-> R(1, 2), ndwi |-> R(3, 10), surface_temperature |-> R(25, 1),
                                   cloud_cover |-> R(10, 1)]
              [] c = "high" -> [ndvi |-> R(4, 5), ndwi |-> R(6, 5), surface_temperature |-> R(35, 1),
                                cloud_cover |-> R(0, 1), quality_flag |-> "good"]
              [] c = "low" -> [ndvi |-> R(1, 5), ndwi |-> R(-1, 5), cloud_cover |-> R(30, 1),
                               quality_flag |-> "cloudy"])

CandidateNames == {"absent", "typical", "high", "low"}

\* The raw-data map chosen by c: dataset ds is missing from the map when
\* c[ds] = "absent" and holds Candidate(ds, c[ds]) otherwise.
RawMapOf(c) ==
    [ds \in {d \in DOMAIN c : c[d] # "absent"} |-> Candidate(ds, c[ds])]

NotComputed == [status |-> "not_computed"]

\* ---- helper methods of the engine, in source order ----

process_smap_surface(data) == Get(data, "surface_moisture", R(1, 4))

\* The root-zone reader with the surface default (0.25) copied into it.
process_smap_root_zone_surface_default(data) == Get(data, "root_zone_moisture", R(1, 4))

process_smap_root_zone(data) == Get(data, "root_zone_moisture", R(3, 10))

process_gpm_precipitation(data) ==
    [rate |-> Get(data, "precipitation_rate", R(2, 1)),
     total |-> Get(data, "precipitation_cal", R(20, 1)),
     probability |-> Get(data, "probability_of_precipitation", R(3, 10))]

process_modis_lst(data) ==
    [day |-> Get(data, "day_lst", R(30, 1)),
     night |-> Get(data, "night_lst", R(15, 1)),
     average |-> RDiv(RAdd(Get(data, "day_lst", R(30, 1)),
                           Get(data, "night_lst", R(15, 1))), R(2, 1))]

process_ecostress_et(data) ==
    [actual |-> Get(data, "et_actual", R(5, 1)),
     potential |-> Get(data, "et_potential", R(8, 1)),
     deficit |-> RMax(Zero, RSub(Get(data, "et_potential", R(8, 1)),
                                 Get(data, "et_actual", R(5, 1))))]

normalization_ranges(data_type) ==
    CASE data_type = "soil_moisture" -> <<R(0, 1), R(1, 2)>>
      [] data_type = "precipitation" -> <<R(0, 1), R(50, 1)>>
      [] data_type = "temperature" -> <<R(0, 1), R(50, 1)>>
      [] OTHER -> <<R(0, 1), R(1, 1)>>

\* A normalisation that would omit the clamp to [0, 1].
spatial_normalize_unclamped(value, data_type) ==
    LET min_val == normalization_ranges(data_type)[1]
        max_val == normalization_ranges(data_type)[2]
    IN  RDiv(RSub(value, min_val), RSub(max_val, min_val))

\* _spatial_normalize: max(0.0, min(1.0, (value - min_val) / (max_val - min_val))).
spatial_normalize(value, data_type) ==
    LET min_val == normalization_ranges(data_type)[1]
        max_val == normalization_ranges(data_type)[2]
    IN  RMax(Zero, RMin(One, RDiv(RSub(value, min_val), RSub(max_val, min_val))))

temporal_normalize(data, data_type, days) ==
    IF data_type = "precipitation"
    THEN LET total == Get(data, "total", Zero)
             optimal == RMul(R(days, 1), R(5, 1))
         IN  RMax(Zero, RMin(One, RDiv(total, optimal)))
    ELSE Half

calculate_temperature_stress(temperature) ==
    LET avg_temp == Get(temperature, "average", R(25, 1))
    IN  IF RLe(R(20, 1), avg_temp) /\ RLe(avg_temp, R(30, 1)) THEN One
        ELSE IF RLt(avg_temp, R(20, 1)) THEN RMax(Zero, RDiv(avg_temp, R(20, 1)))
        ELSE RMax(Zero, RSub(One, RDiv(RSub(avg_temp, R(30, 1)), R(20, 1))))

calculate_et_deficit(et_data, precipitation) ==
    LET et_deficit == Get(et_data, "deficit", Zero)
        precipitation_total == Get(precipitation, "total", Zero)
    IN  IF RLt(Zero, precipitation_total)
        THEN RMax(Zero, RMin(One, RDiv(et_deficit, precipitation_total)))
        ELSE Half

\* A weighting that would treat a record without a flag like an unknown flag.
quality_weight_flag_required(data) ==
    IF "quality_flag" \in DOMAIN data /\ data["quality_flag"] = "good" THEN One
    ELSE IF "quality_flag" \in DOMAIN data /\ data["quality_flag"] = "marginal" THEN R(7, 10)
    ELSE R(4, 10)

\* _assess_data_quality: one weight per entry of the raw map.
quality_weight(data) ==
    IF IsDict(data) /\ "quality_flag" \in DOMAIN data
    THEN (IF data["quality_flag"] = "good" THEN One
          ELSE IF data["quality_flag"] = "marginal" THEN R(7, 10)
          ELSE R(4, 10))
    ELSE R(8, 10)

assess_data_quality(raw) == [ds \in DOMAIN raw |-> quality_weight(raw[ds])]

\* Iteration order of a dict built from a request list: the order of AllDatasets.
KeysInOrder(m) == SelectSeq(AllDatasets, LAMBDA d : d \in DOMAIN m)

\* _propagate_uncertainty: sums over every entry of the weights map.
propagate_uncertainty(components, weights) ==
    LET keys == KeysInOrder(weights)
        uncertainties == [k \in 1..Len(keys) |->
                             RMul(RSub(One, weights[keys[k]]), R(1, 10))]
    IN  RMin(Half, RSum(uncertainties))

generate_usmi_recommendations(usmi_value, components) ==
    IF RLt(usmi_value, R(3, 10))
    THEN <<"Critical soil moisture levels detected",
           "Immediate irrigation recommended",
           "Consider soil moisture monitoring system">>
    ELSE IF RLt(usmi_value, R(1, 2))
    THEN <<"Below optimal soil moisture",
           "Schedule irrigation within 2-3 days",
           "Monitor soil conditions closely">>
    ELSE IF RLt(R(8, 10), usmi_value)
    THEN <<"Excellent soil moisture conditions",
           "No irrigation needed",
           "Continue current management practices">>
    ELSE <<"Soil moisture within acceptable range">>

generate_quality_flags(raw) ==
    [ds \in DOMAIN raw |->
        IF IsDict(raw[ds])
        THEN [quality_flag |-> Get(raw[ds], "quality_flag", "unknown"),
              data_completeness |-> IF raw[ds] # EmptyDict THEN One ELSE Zero,
              temporal_coverage |-> "complete"]
        ELSE [quality_flag |-> "missing",
              data_completeness |-> Zero,
              temporal_coverage |-> "incomplete"]]

\* pydantic's Field(ge=0.0, le=1.0) of the models USMI, AWLI and PAOI.
FieldInUnit(x) == RLe(Zero, x) /\ RLe(x, One)

\* compute_unified_soil_moisture_index, ending with the construction (and
\* validation) of the USMI model.
confidence_of(uncertainty) == RMax(Zero, RSub(One, uncertainty))

compute_unified_soil_moisture_index(raw) ==
    IF reads_none(raw, UsmiDatasets) THEN [status |-> "AttributeError"] ELSE
    LET smap_surface == process_smap_surface(Get(raw, "smap_l3", EmptyDict))
        smap_root == process_smap_root_zone(Get(raw, "smap_l4", EmptyDict))
        precipitation == process_gpm_precipitation(Get(raw, "gpm", EmptyDict))
        temperature == process_modis_lst(Get(raw, "modis_lst", EmptyDict))
        et_data == process_ecostress_et(Get(raw, "ecostress", EmptyDict))
        normalized_components ==
            [surface_moisture |-> spatial_normalize(smap_surface, "soil_moisture"),
             root_zone_moisture |-> spatial_normalize(smap_root, "soil_moisture"),
             precipitation_factor |-> temporal_normalize(precipitation, "precipitation", 7),
             temperature_stress |-> calculate_temperature_stress(temperature),
             et_deficit |-> calculate_et_deficit(et_data, precipitation)]
        quality_weights == assess_data_quality(raw)
        usmi_value ==
            RSum(<<RMul(RMul(normalized_components.surface_moisture, R(35, 100)),
                        Get(quality_weights, "smap_l3", One)),
                   RMul(RMul(normalized_components.root_zone_moisture, R(25, 100)),
                        Get(quality_weights, "smap_l4", One)),
                   RMul(RMul(normalized_components.precipitation_factor, R(20, 100)),
                        Get(quality_weights, "gpm", One)),
                   RMul(RMul(normalized_components.temperature_stress, R(15, 100)),
                        Get(quality_weights, "modis_lst", One)),
                   RMul(RMul(normalized_components.et_deficit, R(5, 100)),
                        Get(quality_weights, "ecostress", One))>>)
        uncertainty == propagate_uncertainty(normalized_components, quality_weights)
        confidence == confidence_of(uncertainty)
    IN  [status |-> IF FieldInUnit(usmi_value) /\ FieldInUnit(confidence)
                    THEN "ok" ELSE "ValidationError",
         value |-> usmi_value,
         confidence |-> confidence,
         uncertainty |-> uncertainty,
         components |-> normalized_components,
         quality_weights |-> quality_weights,
         quality_flags |-> generate_quality_flags(raw),
         recommendations |-> generate_usmi_recommendations(usmi_value, normalized_components)]

\* ---- helper methods for AWLI ----

process_grace_groundwater(data) ==
    [anomaly |-> Get(data, "groundwater_anomaly", Zero),
     uncertainty |-> Get(data, "uncertainty", R(2, 1))]

process_gldas_soil_moisture(data) ==
    [surface |-> Get(data, "surface_moisture", R(1, 4)),
     root_zone |-> Get(data, "root_zone_moisture", R(3, 10))]

process_vegetation_indices(data) ==
    [ndvi |-> Get(data, "ndvi", Half),
     evi |-> Get(data, "evi", R(3, 10)),
     phenology_stage |-> "vegetative"]

calculate_vegetation_water_stress(ndvi_data, lst_data) ==
    LET ndvi == Get(ndvi_data, "ndvi", Half)
        lst == Get(lst_data, "average", R(25, 1))
    IN  IF RLt(R(6, 10), ndvi) /\ RLt(lst, R(30, 1)) THEN One
        ELSE IF RLt(ndvi, R(4, 10)) \/ RLt(R(35, 1), lst) THEN Zero
        ELSE RDiv(RSub(ndvi, R(4, 10)), R(2, 10))

calculate_precipitation_anomaly(gpm_data, climatology) ==
    LET current_precip == Get(gpm_data, "precipitation_cal", R(20, 1))
        historical_mean == Get(climatology, "mean", R(25, 1))
    IN  IF RLt(Zero, historical_mean)
        THEN LET anomaly == RDiv(RSub(current_precip, historical_mean), historical_mean)
             IN  RMax(Zero, RMin(One, RDiv(RAdd(anomaly, One), R(2, 1))))
        ELSE Half

get_precipitation_climatology == [mean |-> R(25, 1), std |-> R(10, 1)]

calculate_potential_et(lst_data, gpm_data) ==
    LET temperature == Get(lst_data, "average", R(25, 1))
    IN  RMax(Zero, RMul(temperature, R(3, 10)))

\* _safe_divide returning the numerator on a zero denominator.
safe_divide_passthrough(numerator, denominator) ==
    IF denominator # Zero THEN RDiv(numerator, denominator) ELSE numerator

safe_divide(numerator, denominator) ==
    IF denominator # Zero THEN RDiv(numerator, denominator) ELSE Zero

analyze_surface_water(landsat_data) ==
    LET ndwi == Get(landsat_data, "ndwi", R(3, 10))
    IN  RMax(Zero, RMin(One, ndwi))

\* _initialize_crop_databases: the water_requirements of each crop (mm/day).
crop_databases ==
    [corn |-> [name |-> "Corn",
               water_requirements |-> [germination |-> R(5, 1), vegetative |-> R(8, 1),
                                       reproductive |-> R(12, 1), maturity |-> R(6, 1)]],
     wheat |-> [name |-> "Wheat",
                water_requirements |-> [germination |-> R(3, 1), vegetative |-> R(6, 1),
                                        reproductive |-> R(8, 1), maturity |-> R(4, 1)]],
     soybean |-> [name |-> "Soybean",
                  water_requirements |-> [germination |-> R(4, 1), vegetative |-> R(7, 1),
                                          reproductive |-> R(10, 1), maturity |-> R(5, 1)]],
     rice |-> [name |-> "Rice",
               water_requirements |-> [germination |-> R(8, 1), vegetative |-> R(12, 1),
                                       reproductive |-> R(15, 1), maturity |-> R(8, 1)]]]

\* The crop types and target pests a modelled request draws from.
CropTypes == {"corn", "Wheat", "rice", "dragonfruit"}
TargetPests == {"general", "corn_borer", "aphids", "rust"}

\* str.lower() on the modelled crop types.
Lower(str) == IF str = "Wheat" THEN "wheat" ELSE str

get_crop_water_requirements(crop_data, stage) ==
    Get(crop_data.water_requirements, stage, R(6, 1))

get_crop_water_weights(crop_type) ==
    [groundwater_anomaly |-> R(30, 100),
     precipitation_anomaly |-> R(25, 100),
     vegetation_water_stress |-> R(20, 100),
     et_ratio |-> R(15, 100),
     surface_water_availability |-> R(10, 100)]

\* The methods class AgriculturalDataFusionEngine defines.  A call of
\* self.<name> for any other name raises AttributeError.
EngineMethods ==
    {"__init__", "initialize", "_initialize_crop_databases", "fetch_raw_data",
     "_generate_mock_nasa_data", "compute_unified_soil_moisture_index",
     "compute_agricultural_water_level_indicator",
     "compute_pesticide_application_optimization_index",
     "_process_smap_surface", "_process_smap_root_zone", "_process_gpm_precipitation",
     "_process_modis_lst", "_process_ecostress_et", "_spatial_normalize",
     "_temporal_normalize", "_calculate_temperature_stress", "_calculate_et_deficit",
     "_assess_data_quality", "_propagate_uncertainty", "_generate_usmi_recommendations",
     "_generate_quality_flags", "_process_grace_groundwater",
     "_process_gldas_soil_moisture", "_process_vegetation_indices",
     "_calculate_vegetation_water_stress", "_calculate_precipitation_anomaly",
     "_get_precipitation_climatology", "_calculate_potential_et", "_safe_divide",
     "_analyze_surface_water", "_get_crop_water_requirements", "_get_crop_water_weights",
     "_assess_water_requirement_status", "_generate_irrigation_recommendations",
     "_detect_vegetation_anomalies", "_calculate_humidity_proxy",
     "_model_pest_favorable_conditions", "_extract_wind_data",
     "_get_precipitation_forecast", "_assess_application_weather_suitability",
     "_determine_phenology_stage", "_get_pesticide_timing_score", "_mock_aerosol_data",
     "_calculate_spray_drift_risk", "_calculate_optimal_application_window",
     "_assess_environmental_impact", "_generate_pesticide_recommendations",
     "generate_integrated_recommendations", "generate_alerts", "store_fusion_results",
     "get_metrics_history", "get_crop_recommendations"}

HasMethod(name) == name \in EngineMethods

\* compute_agricultural_water_level_indicator: everything up to the building
\* of awli_components is computed; the first entry of that dict calls
\* self._normalize_groundwater_anomaly, which the class does not define, so
\* the call raises AttributeError and no AWLI is built.  The locals computed
\* before the raise are kept in the result for inspection.
compute_agricultural_water_level_indicator(raw, crop_type) ==
    IF reads_none(raw, AwliDatasets) THEN [status |-> "AttributeError", crop_type |-> crop_type] ELSE
    LET grace_data == process_grace_groundwater(Get(raw, "grace", EmptyDict))
        gldas_data == process_gldas_soil_moisture(Get(raw, "smap_l4", EmptyDict))
        ndvi_data == process_vegetation_indices(Get(raw, "modis_vegetation", EmptyDict))
        water_stress_index ==
            calculate_vegetation_water_stress(ndvi_data, Get(raw, "modis_lst", EmptyDict))
        precipitation_anomaly ==
            calculate_precipitation_anomaly(Get(raw, "gpm", EmptyDict),
                                            get_precipitation_climatology)
        actual_et == Get(Get(raw, "ecostress", EmptyDict), "et_actual", R(5, 1))
        potential_et == calculate_potential_et(Get(raw, "modis_lst", EmptyDict),
                                               Get(raw, "gpm", EmptyDict))
        et_ratio == safe_divide(actual_et, potential_et)
        surface_water == analyze_surface_water(Get(raw, "landsat", EmptyDict))
        crop_key == IF Lower(crop_type) \in DOMAIN crop_databases
                    THEN Lower(crop_type) ELSE "corn"
        crop_data == crop_databases[crop_key]
        crop_water_needs ==
            get_crop_water_requirements(crop_data, Get(ndvi_data, "phenology_stage", "vegetative"))
        crop_weights == get_crop_water_weights(crop_type)
    IN  [status |-> IF HasMethod("_normalize_groundwater_anomaly")
                    THEN "unmodelled" ELSE "AttributeError",
         crop_type |-> crop_type,
         crop_entry |-> crop_key,
         crop_water_needs |-> crop_water_needs,
         precipitation_anomaly |-> precipitation_anomaly,
         vegetation_water_stress |-> water_stress_index,
         et_ratio |-> et_ratio,
         surface_water_availability |-> surface_water]

\* ---- helper methods for PAOI ----

detect_vegetation_anomalies(vegetation_data) ==
    LET ndvi == Get(vegetation_data, "ndvi", Half)
        pixel_reliability == Get(vegetation_data, "pixel_reliability", Zero)
    IN  IF RLt(R(6, 10), ndvi) /\ pixel_reliability = Zero THEN One
        ELSE IF RLt(ndvi, R(4, 10)) \/ RLt(One, pixel_reliability) THEN Zero
        ELSE ndvi

\* precip / (temp * 2) raises ZeroDivisionError when temp is 0.
humidity_divides(temperature_data) == Get(temperature_data, "average", R(25, 1)) # Zero

calculate_humidity_proxy(gpm_data, temperature_data) ==
    LET precip == Get(gpm_data, "precipitation_cal", R(20, 1))
        temp == Get(temperature_data, "average", R(25, 1))
    IN  RMin(One, RDiv(precip, RMul(temp, R(2, 1))))

pest_optimal_temp(pest) ==
    CASE pest = "corn_borer" -> R(25, 1)
      [] pest = "aphids" -> R(20, 1)
      [] pest = "rust" -> R(22, 1)
      [] OTHER -> R(25, 1)

model_pest_favorable_conditions(temperature, humidity, pest) ==
    LET temp == Get(temperature, "average", R(25, 1))
        temp_favorability ==
            RMax(Zero, RSub(One, RDiv(RAbs(RSub(temp, pest_optimal_temp(pest))), R(10, 1))))
    IN  RDiv(RAdd(temp_favorability, humidity), R(2, 1))

\* np.random.uniform(2, 8) of _extract_wind_data and np.random.uniform(0.1,
\* 0.5) of _mock_aerosol_data: the values a modelled draw takes.
WindSpeeds == {R(2, 1), R(5, 1), R(8, 1)}
AerosolDepths == {R(1, 10), R(2, 5), R(1, 2)}

get_precipitation_forecast(gpm_data) ==
    [next_6h |-> RMul(Get(gpm_data, "precipitation_rate", R(2, 1)), R(6, 1)),
     next_24h |-> Get(gpm_data, "precipitation_cal", R(20, 1)),
     probability |-> Get(gpm_data, "probability_of_precipitation", R(3, 10))]

assess_application_weather_suitability(wind, precip, temp) ==
    LET wind_speed == Get(wind, "speed", R(5, 1))
        precip_prob == Get(precip, "probability", R(3, 10))
        temperature == Get(temp, "average", R(25, 1))
        wind_score == RMax(Zero, RSub(One, RDiv(wind_speed, R(10, 1))))
        precip_score == RSub(One, precip_prob)
        temp_score == RSub(One, RDiv(RAbs(RSub(temperature, R(25, 1))), R(15, 1)))
    IN  RDiv(RSum(<<wind_score, precip_score, temp_score>>), R(3, 1))

determine_phenology_stage(vegetation_data, crop_type) ==
    LET ndvi == Get(vegetation_data, "ndvi", Half)
    IN  IF RLt(ndvi, R(3, 10)) THEN "emergence"
        ELSE IF RLt(ndvi, R(6, 10)) THEN "vegetative"
        ELSE IF RLt(ndvi, R(8, 10)) THEN "reproductive"
        ELSE "maturity"

\* The lookup with a default of 0.5.
get_pesticide_timing_score_half_default(stage, pest) ==
    CASE stage = "vegetative" /\ pest = "corn_borer" -> R(9, 10)
      [] stage = "reproductive" /\ pest = "corn_borer" -> R(7, 10)
      [] stage = "vegetative" /\ pest = "aphids" -> R(8, 10)
      [] stage = "reproductive" /\ pest = "aphids" -> R(6, 10)
      [] stage = "vegetative" /\ pest = "rust" -> R(5, 10)
      [] stage = "reproductive" /\ pest = "rust" -> R(9, 10)
      [] OTHER -> R(5, 10)

get_pesticide_timing_score(stage, pest) ==
    CASE stage = "vegetative" /\ pest = "corn_borer" -> R(9, 10)
      [] stage = "reproductive" /\ pest = "corn_borer" -> R(7, 10)
      [] stage = "vegetative" /\ pest = "aphids" -> R(8, 10)
      [] stage = "reproductive" /\ pest = "aphids" -> R(6, 10)
      [] stage = "vegetative" /\ pest = "rust" -> R(5, 10)
      [] stage = "reproductive" /\ pest = "rust" -> R(9, 10)
      [] OTHER -> R(6, 10)

calculate_spray_drift_risk(wind, aerosol) ==
    LET wind_speed == Get(wind, "speed", R(5, 1))
        aod == Get(aerosol, "aod_550", R(3, 10))
        wind_risk == RMin(One, RDiv(wind_speed, R(8, 1)))
        aerosol_risk == RMin(One, RDiv(aod, R(4, 10)))
    IN  RDiv(RAdd(wind_risk, aerosol_risk), R(2, 1))

\* np.mean over the five component values.
ComponentMean(components) ==
    RDiv(RSum(<<components.vegetation_stress, components.pest_favorable_conditions,
                components.weather_suitability, components.phenology_timing,
                components.spray_drift_risk>>), R(5, 1))

\* int() truncates toward zero.
Trunc(a) == IF a[1] >= 0 THEN a[1] \div a[2] ELSE -((-a[1]) \div a[2])

calculate_optimal_application_window(components) ==
    LET base_score == ComponentMean(components)
        hours == Trunc(RMul(R(24, 1), base_score))
    IN  [optimal_hours |-> IF hours > 0 THEN hours ELSE 0,
         next_optimal_time |-> "06:00-10:00",
         avoid_times |-> "14:00-18:00",
         confidence |-> base_score]

assess_environmental_impact(components) ==
    LET weather_suitability == Get(components, "weather_suitability", Half)
        spray_drift_risk == RSub(One, Get(components, "spray_drift_risk", Half))
    IN  RDiv(RAdd(weather_suitability, spray_drift_risk), R(2, 1))

generate_pesticide_recommendations(paoi_value, components) ==
    IF RLt(R(7, 10), paoi_value)
    THEN <<"Optimal conditions for pesticide application",
           "Proceed with planned application",
           "Monitor weather conditions during application">>
    ELSE IF RLt(R(4, 10), paoi_value)
    THEN <<"Moderate conditions for application",
           "Consider waiting for better conditions",
           "Use targeted application methods">>
    ELSE <<"Poor conditions for pesticide application",
           "Postpone application until conditions improve",
           "Consider alternative pest management strategies">>

\* compute_pesticide_application_optimization_index; wind_speed and aod_550
\* are the values its two np.random draws took.
compute_pesticide_application_optimization_index(raw, crop_type, target_pest, wind_speed, aod_550) ==
    LET vegetation_data == Get(raw, "modis_vegetation", EmptyDict)
        vegetation_stress == detect_vegetation_anomalies(vegetation_data)
        temperature_data == Get(raw, "modis_lst", EmptyDict)
        gpm_data == Get(raw, "gpm", EmptyDict)
    IN  IF reads_none(raw, PaoiDatasets)
        THEN [status |-> "AttributeError", crop_type |-> crop_type,
              target_pest |-> target_pest]
        ELSE IF ~humidity_divides(temperature_data)
        THEN [status |-> "ZeroDivisionError", crop_type |-> crop_type,
              target_pest |-> target_pest]
        ELSE
    LET humidity_proxy == calculate_humidity_proxy(gpm_data, temperature_data)
        pest_conditions ==
            model_pest_favorable_conditions(temperature_data, humidity_proxy, target_pest)
        wind_data == [speed |-> wind_speed]
        precipitation_forecast == get_precipitation_forecast(gpm_data)
        application_weather ==
            assess_application_weather_suitability(wind_data, precipitation_forecast,
                                                   temperature_data)
        phenology_stage == determine_phenology_stage(vegetation_data, crop_type)
        phenology_score == get_pesticide_timing_score(phenology_stage, target_pest)
        aerosol_data == [aod_550 |-> aod_550]
        spray_drift_risk == calculate_spray_drift_risk(wind_data, aerosol_data)
        paoi_components ==
            [vegetation_stress |-> vegetation_stress,
             pest_favorable_conditions |-> pest_conditions,
             weather_suitability |-> application_weather,
             phenology_timing |-> phenology_score,
             spray_drift_risk |-> RSub(One, spray_drift_risk)]
        paoi_value ==
            RSum(<<RMul(paoi_components.vegetation_stress, R(30, 100)),
                   RMul(paoi_components.pest_favorable_conditions, R(25, 100)),
                   RMul(paoi_components.weather_suitability, R(20, 100)),
                   RMul(paoi_components.phenology_timing, R(15, 100)),
                   RMul(paoi_components.spray_drift_risk, R(10, 100))>>)
        environmental_impact_score == assess_environmental_impact(paoi_components)
    IN  [status |-> IF FieldInUnit(paoi_value) /\ FieldInUnit(environmental_impact_score)
                    THEN "ok" ELSE "ValidationError",
         value |-> paoi_value,
         crop_type |-> crop_type,
         target_pest |-> target_pest,
         application_window |-> calculate_optimal_application_window(paoi_components),
         components |-> paoi_components,
         drift_risk |-> spray_drift_risk,
         environmental_impact_score |-> environmental_impact_score,
         recommendations |-> generate_pesticide_recommendations(paoi_value, paoi_components)]

\* ---- the index computations applied to every modelled raw-data map ----

NoRequest == [lat |-> 0, lon |-> 0, start |-> 0, end |-> 0,
              crop_type |-> "", target_pest |-> "", datasets |-> <<>>]

NoResponse == [status |-> 0, error |-> ""]

HandlerIdle ==
    /\ request = NoRequest
    /\ hpc = "idle"
    /\ response = NoResponse


\* The raw map after raw_data.setdefault(key, {}) for every key in keys.
dict_after_setdefault(raw, keys) ==
    [k \in DOMAIN raw \cup keys |-> IF k \in DOMAIN raw THEN raw[k] ELSE EmptyDict]

\* The raw map after raw_data.get(key, {}) for every key in keys: a read of a
\* missing key returns the default and stores nothing.
dict_after_get(raw, keys) == [k \in DOMAIN raw |-> raw[k]]

\* USMI also reads the quality flag of every entry of the map, so its
\* inputs range over all eight datasets.
UsmiInit ==
    /\ HandlerIdle
    /\ \E c \in [DatasetSet -> CandidateNames] : raw_data = RawMapOf(c)
    /\ crop_arg = "corn"
    /\ pest_arg = "general"
    /\ usmi = NotComputed
    /\ awli = NotComputed
    /\ paoi = NotComputed

ComputeUSMI ==
    /\ hpc = "idle"
    /\ usmi = NotComputed
    /\ usmi' = compute_unified_soil_moisture_index(raw_data)
    /\ raw_data' = dict_after_get(raw_data, UsmiDatasets)
    /\ UNCHANGED <<acqVars, aggVars, wsVars, fnVars, request, hpc, response, crop_arg, pest_arg, awli, paoi>>

AwliInit ==
    /\ HandlerIdle
    /\ \E c \in [AwliDatasets -> CandidateNames] : raw_data = RawMapOf(c)
    /\ crop_arg \in CropTypes
    /\ pest_arg = "general"
    /\ usmi = NotComputed
    /\ awli = NotComputed
    /\ paoi = NotComputed

ComputeAWLI ==
    /\ hpc = "idle"
    /\ awli = NotComputed
    /\ awli' = compute_agricultural_water_level_indicator(raw_data, crop_arg)
    /\ raw_data' = dict_after_get(raw_data, AwliDatasets)
    /\ UNCHANGED <<acqVars, aggVars, wsVars, fnVars, request, hpc, response, crop_arg, pest_arg, usmi, paoi>>

\* Raw maps beside those of Candidate: a land surface temperature record
\* that carries an average below zero, and one above 40 degrees together
\* with certain rain.
PaoiExtraMaps ==
    {[modis_vegetation |-> [ndvi |-> R(7, 10), evi |-> R(1, 2)]],
     [modis_lst |-> [average |-> R(-5, 1), quality_flag |-> "good"]],
     [modis_lst |-> [average |-> R(45, 1), quality_flag |-> "good"],
      gpm |-> [precipitation_cal |-> R(10, 1), probability_of_precipitation |-> One]]}

PaoiInit ==
    /\ HandlerIdle
    /\ raw_data \in {RawMapOf(c) : c \in [PaoiDatasets -> CandidateNames]} \cup PaoiExtraMaps
    /\ crop_arg \in CropTypes
    /\ pest_arg \in TargetPests
    /\ usmi = NotComputed
    /\ awli = NotComputed
    /\ paoi = NotComputed

ComputePAOI ==
    /\ hpc = "idle"
    /\ paoi = NotComputed
    /\ \E wind_speed \in WindSpeeds, aod_550 \in AerosolDepths :
          paoi' = compute_pesticide_application_optimization_index(
                      raw_data, crop_arg, pest_arg, wind_speed, aod_550)
    /\ raw_data' = dict_after_get(raw_data, PaoiDatasets)
    /\ UNCHANGED <<acqVars, aggVars, wsVars, fnVars, request, hpc, response, crop_arg, pest_arg, usmi, awli>>

\* ---- main.py: the handler compute_unified_metrics ----

\* The requests a modelled caller posts.  Coordinates and days are integers;
\* "" and <<>> stand for an omitted optional field (None).
RequestCoordinates == {<<40, -74>>, <<-90, 180>>, <<91, 0>>, <<0, -181>>}
RequestDateRanges == {<<1, 31>>, <<5, 5>>, <<31, 1>>}
RequestCropTypes == {"", "Wheat", "dragonfruit"}
RequestTargetPests == {"", "rust"}
RequestDatasetLists == {<<>>, <<"smap_l3", "gpm">>, <<"weather_radar", "modis_lst">>}

Requests ==
    {[lat |-> xy[1], lon |-> xy[2], start |-> se[1], end |-> se[2],
      crop_type |-> ct, target_pest |-> tp, datasets |-> dl] :
        xy \in RequestCoordinates, se \in RequestDateRanges, ct \in RequestCropTypes,
        tp \in RequestTargetPests, dl \in RequestDatasetLists}

HandlerInit ==
    /\ request \in Requests
    /\ hpc = "received"
    /\ response = NoResponse
    /\ raw_data = <<>>
    /\ crop_arg = ""
    /\ pest_arg = ""
    /\ usmi = NotComputed
    /\ awli = NotComputed
    /\ paoi = NotComputed

\* models.py: the Field constraints of GeoLocation (ge/le on lat and lon).
\* DateRange declares start and end with no constraint between them.
GeoLocationValid(req) ==
    /\ -90 <= req.lat /\ req.lat <= 90
    /\ -180 <= req.lon /\ req.lon <= 180

DateRangeValid(req) == TRUE

FusionRequestValid(req) == GeoLocationValid(req) /\ DateRangeValid(req)

\* FastAPI validates the body against FusionRequest before the handler runs;
\* a body that fails validation is answered 422 and the handler is not called.
validate_request ==
    /\ hpc = "received"
    /\ IF FusionRequestValid(request)
       THEN hpc' = "handling" /\ response' = response
       ELSE hpc' = "rejected" /\ response' = [status |-> 422, error |-> "RequestValidationError"]
    /\ UNCHANGED <<acqVars, aggVars, wsVars, fnVars, request, raw_data, crop_arg, pest_arg, usmi, awli, paoi>>

\* `x or default` of Python, for the modelled stand-ins of None.
OrDefault(x, default) == IF x = "" THEN default ELSE x

OrDefaultList(x, default) == IF x = <<>> THEN default ELSE x

\* _generate_mock_nasa_data draws every field at random inside its range:
\* the record a modelled draw yields for a dataset.  The two modelled draws
\* differ in the SMAP L3 record.
MockDraws == {"first", "second"}

MockRecord(ds, draw) ==
    IF ds = "smap_l3" /\ draw = "second"
    THEN [surface_moisture |-> R(1, 10), quality_flag |-> "good", uncertainty |-> R(1, 20)]
    ELSE Candidate(ds, "typical")

SeqRange(seq) == {seq[i] : i \in 1..Len(seq)}

\* The maps _generate_mock_nasa_data can return for a dataset list: one
\* record per listed id that its if-chain knows, no entry for any other id.
MockMaps(dataset_list) ==
    {[d \in SeqRange(dataset_list) \cap DatasetSet |-> MockRecord(d, draw)] :
        draw \in MockDraws}

\* fetch_raw_data: whatever the ingestion service answers, the method returns
\* _generate_mock_nasa_data(location, date_range, datasets).  On its return
\* the handler creates the three index coroutines and awaits asyncio.gather.
fetch_raw_data ==
    /\ hpc = "handling"
    /\ raw_data' \in MockMaps(OrDefaultList(request.datasets, AllDatasets))
    /\ crop_arg' = OrDefault(request.crop_type, "corn")
    /\ pest_arg' = OrDefault(request.target_pest, "general")
    /\ hpc' = "gathering"
    /\ UNCHANGED <<acqVars, aggVars, wsVars, fnVars, request, response, usmi, awli, paoi>>

TaskRaised(result) == result.status \notin {"not_computed", "ok"}
TaskDone(result) == result.status # "not_computed"

\* asyncio.gather wraps the three index coroutines in tasks, which the event
\* loop runs in the order of their creation; none of them awaits, so each
\* runs to completion in one step.
usmi_task ==
    /\ hpc = "gathering"
    /\ usmi = NotComputed
    /\ usmi' = compute_unified_soil_moisture_index(raw_data)
    /\ raw_data' = dict_after_get(raw_data, UsmiDatasets)
    /\ UNCHANGED <<acqVars, aggVars, wsVars, fnVars, request, hpc, response, crop_arg, pest_arg, awli, paoi>>

awli_task ==
    /\ hpc = "gathering"
    /\ TaskDone(usmi)
    /\ awli = NotComputed
    /\ awli' = compute_agricultural_water_level_indicator(raw_data, crop_arg)
    /\ raw_data' = dict_after_get(raw_data, AwliDatasets)
    /\ UNCHANGED <<acqVars, aggVars, wsVars, fnVars, request, hpc, response, crop_arg, pest_arg, usmi, paoi>>

paoi_task ==
    /\ hpc = "gathering"
    /\ TaskDone(awli)
    /\ paoi = NotComputed
    /\ \E wind_speed \in WindSpeeds, aod_550 \in AerosolDepths :
          paoi' = compute_pesticide_application_optimization_index(
                      raw_data, crop_arg, pest_arg, wind_speed, aod_550)
    /\ raw_data' = dict_after_get(raw_data, PaoiDatasets)
    /\ UNCHANGED <<acqVars, aggVars, wsVars, fnVars, request, hpc, response, crop_arg, pest_arg, usmi, awli>>

\* models.py imports pydantic, typing, datetime and enum; AWLI.get_confidence
\* and PAOI.get_confidence read the name np, which the module never binds.
models_imports == {"pydantic", "typing", "datetime", "enum"}

get_confidence_raises == "numpy" \notin models_imports

\* asyncio.gather(usmi_task, awli_task, paoi_task) resumes the handler, after
\* the three tasks have run, with the first exception a task raised or with
\* the three results.  Any exception (of a task, or of building the
\* response) reaches the handler's `except Exception`, which answers HTTP 500.
FirstError ==
    IF TaskRaised(usmi) THEN usmi.status
    ELSE IF TaskRaised(awli) THEN awli.status
    ELSE paoi.status

gather_returns ==
    /\ hpc = "gathering"
    /\ TaskDone(usmi) /\ TaskDone(awli) /\ TaskDone(paoi)
    /\ response' =
         IF TaskRaised(usmi) \/ TaskRaised(awli) \/ TaskRaised(paoi)
         THEN [status |-> 500, error |-> FirstError]
         ELSE IF get_confidence_raises
         THEN [status |-> 500, error |-> "NameError"]
         ELSE [status |-> 200, error |-> ""]
    /\ hpc' = "responded"
    /\ UNCHANGED <<acqVars, aggVars, wsVars, fnVars, request, raw_data, crop_arg, pest_arg, usmi, awli, paoi>>

HandlerNext ==
    \/ validate_request
    \/ fetch_raw_data
    \/ usmi_task
    \/ awli_task
    \/ paoi_task
    \/ gather_returns

AcqIdle ==
    /\ ingest_pc = "idle"
    /\ datasets = <<>>
    /\ fpc = <<>>
    /\ attempt = <<>>
    /\ outcomes = <<>>
    /\ waits = <<>>
    /\ results = <<>>
    /\ data_results = <<>>

FusionIdle ==
    /\ HandlerIdle
    /\ raw_data = <<>>
    /\ crop_arg = ""
    /\ pest_arg = ""
    /\ usmi = NotComputed
    /\ awli = NotComputed
    /\ paoi = NotComputed

\* No index results have been aggregated and nothing was run twice.
NotRun == [status |-> "not_run"]

AggIdle ==
    /\ hash_seed = 0
    /\ alerts = NotRun
    /\ recommendations = NotRun
    /\ rerun = NotRun
    /\ category = ""
    /\ water_status = ""

\* The farm ids of the clients and the number of clients that connect.
Farms == {"farm_a", "farm_b"}

MaxHandlers == 3

Handlers == 1..MaxHandlers

\* No connection id: the value of a name bound to None.
NoConnectionId == <<"", 0>>

NoSend == [op |-> "none", farm_id |-> "", targets |-> {}, failed |-> {}, delivered |-> {}, status |-> "none"]

IdleHandler == [pc |-> "idle", farm_id |-> "", connection_id |-> NoConnectionId, registered |-> NoConnectionId]

\* ConnectionManager.__init__ and no client yet.
WsIdle ==
    /\ active_connections = <<>>
    /\ farm_subscriptions = <<>>
    /\ websocket_farms = <<>>
    /\ ws_handlers = [h \in Handlers |-> IdleHandler]
    /\ ws_clock = 0
    /\ broken = {}
    /\ last_send = NoSend

FnIdle ==
    /\ div_numerator = Zero
    /\ div_denominator = Zero
    /\ div_result = NotRun
    /\ stress_ndvi = EmptyDict
    /\ stress_lst = EmptyDict
    /\ stress_result = NotRun

Init == AcqInit /\ FusionIdle /\ AggIdle /\ FnIdle /\ WsIdle

Next == AcqNext

vars == <<acqVars, fusionVars, aggVars, fnVars, wsVars>>

Spec == Init /\ [][Next]_vars

\* The acquisition under the event loop's scheduling: a step the loop can
\* take is eventually taken.  Nothing is assumed of the data sources.
SchedSpec == Spec /\ WF_vars(SchedStep)

\* The index computations as functions of the raw-data map.
UsmiSpecInit == UsmiInit /\ AcqIdle /\ AggIdle /\ FnIdle /\ WsIdle

UsmiSpec == UsmiSpecInit /\ [][ComputeUSMI]_vars

AwliSpecInit == AwliInit /\ AcqIdle /\ AggIdle /\ FnIdle /\ WsIdle

AwliSpec == AwliSpecInit /\ [][ComputeAWLI]_vars

PaoiSpecInit == PaoiInit /\ AcqIdle /\ AggIdle /\ FnIdle /\ WsIdle

PaoiSpec == PaoiSpecInit /\ [][ComputePAOI]_vars

\* The handler compute_unified_metrics on every modelled request.
HandlerSpecInit == HandlerInit /\ AcqIdle /\ AggIdle /\ FnIdle /\ WsIdle

HandlerSpec == HandlerSpecInit /\ [][HandlerNext]_vars

\* ---- the USMI computation on maps that lack datasets ----

\* A raw map without the entry of one dataset id.
Without(raw, d) == [k \in DOMAIN raw \ {d} |-> raw[k]]

DegradeInit ==
    /\ HandlerIdle
    /\ \E c \in [UsmiDatasets -> CandidateNames] : raw_data = RawMapOf(c)
    /\ crop_arg = "corn"
    /\ pest_arg = "general"
    /\ usmi = NotComputed
    /\ awli = NotComputed
    /\ paoi = NotComputed

DegradeSpecInit == DegradeInit /\ AcqIdle /\ AggIdle /\ FnIdle /\ WsIdle

\* The USMI computation on every map over the five datasets it reads, each
\* dataset absent or holding one of three records.
DegradeSpec == DegradeSpecInit /\ [][ComputeUSMI]_vars

\* ---- the index computations on maps holding the marker None ----

\* The datasets whose slot failed for good, was fetched, or was not requested.
MarkerDatasets == {"smap_l3", "gpm", "modis_vegetation", "grace"}

MarkerNames == {"absent", "typical", "none"}

\* The map bulk_data_fetch returns: a record for a fetched dataset, None for
\* a slot that failed, no key for a dataset that was not requested.
RawMapWithNone(c) ==
    [ds \in {d \in DOMAIN c : c[d] # "absent"} |->
        IF c[ds] = "none" THEN None ELSE Candidate(ds, c[ds])]

MarkerInit ==
    /\ HandlerIdle
    /\ \E c \in [MarkerDatasets -> MarkerNames] : raw_data = RawMapWithNone(c)
    /\ crop_arg = "corn"
    /\ pest_arg = "general"
    /\ usmi = NotComputed
    /\ awli = NotComputed
    /\ paoi = NotComputed

MarkerNext ==
    \/ ComputeUSMI
    \/ ComputeAWLI
    \/ ComputePAOI

MarkerSpecInit == MarkerInit /\ AcqIdle /\ AggIdle /\ FnIdle /\ WsIdle

\* The three index computations, in any order, on every modelled map that
\* may hold None.
MarkerSpec == MarkerSpecInit /\ [][MarkerNext]_vars

\* ---- the WebSocket service: ConnectionManager and its callers ----

\* The three registries as one value.
Registries ==
    [active |-> active_connections, subs |-> farm_subscriptions, farms |-> websocket_farms]

InActive(active, connection_id) == \E i \in 1..Len(active) : active[i].id = connection_id

WebsocketOf(active, connection_id) ==
    (CHOOSE i \in 1..Len(active) : active[i].id = connection_id)

\* list.remove(x): the list without the first occurrence of x.
ListRemove(l, x) ==
    IF \E i \in 1..Len(l) : l[i] = x
    THEN LET i == CHOOSE j \in 1..Len(l) : l[j] = x /\ \A k \in 1..(j - 1) : l[k] # x
         IN  SubSeq(l, 1, i - 1) \o SubSeq(l, i + 1, Len(l))
    ELSE l

DictDelete(d, key) == [k \in DOMAIN d \ {key} |-> d[k]]

DictSet(d, key, value) == [k \in DOMAIN d \cup {key} |-> IF k = key THEN value ELSE d[k]]

\* f"{farm_id}_{datetime.now().timestamp()}"
connection_id_of(farm_id, timestamp) == <<farm_id, timestamp>>

\* ConnectionManager.connect has no return statement.
connect_return_value(connection_id) == NoConnectionId

\* ConnectionManager.connect, lines 56-61: the three registrations.
register(reg, connection_id, farm_id, websocket) ==
    [active |-> IF InActive(reg.active, connection_id)
                THEN [reg.active EXCEPT ![WebsocketOf(reg.active, connection_id)].ws = websocket]
                ELSE Append(reg.active, [id |-> connection_id, ws |-> websocket]),
     farms |-> DictSet(reg.farms, connection_id, farm_id),
     subs |-> DictSet(reg.subs, farm_id,
                      Append(Get(reg.subs, farm_id, <<>>), connection_id))]

\* ConnectionManager.disconnect.
disconnect(reg, connection_id) ==
    IF ~InActive(reg.active, connection_id) THEN reg
    ELSE LET farm_id == Get(reg.farms, connection_id, "")
             left == IF farm_id # "" /\ farm_id \in DOMAIN reg.subs
                     THEN ListRemove(reg.subs[farm_id], connection_id)
                     ELSE <<>>
         IN  [active |-> SelectSeq(reg.active, LAMBDA e : e.id # connection_id),
              farms |-> DictDelete(reg.farms, connection_id),
              subs |-> IF farm_id # "" /\ farm_id \in DOMAIN reg.subs
                       THEN (IF left = <<>> THEN DictDelete(reg.subs, farm_id)
                             ELSE DictSet(reg.subs, farm_id, left))
                       ELSE reg.subs]

\* websocket.send_text inside try / except: deliver, or disconnect on failure.
send_text_or_disconnect(st, connection_id, websocket, failing) ==
    IF websocket \in failing
    THEN [st EXCEPT !.reg = disconnect(st.reg, connection_id)]
    ELSE [st EXCEPT !.delivered = @ \cup {websocket}]

\* ConnectionManager.send_personal_message.
send_personal_message(st, connection_id, failing) ==
    IF InActive(st.reg.active, connection_id)
    THEN send_text_or_disconnect(st, connection_id,
                                 st.reg.active[WebsocketOf(st.reg.active, connection_id)].ws,
                                 failing)
    ELSE st

RECURSIVE farm_loop(_, _, _, _)
\* `for connection_id in self.farm_subscriptions[farm_id]`: the list iterator
\* holds an index into the list object, which disconnect shortens in place.
farm_loop(st, farm_id, i, failing) ==
    LET l == Get(st.reg.subs, farm_id, <<>>)
    IN  IF i > Len(l) THEN st
        ELSE farm_loop(send_personal_message(st, l[i], failing), farm_id, i + 1, failing)

\* ConnectionManager.send_to_farm.
send_to_farm_result(reg, farm_id, failing) ==
    IF farm_id \in DOMAIN reg.subs
    THEN farm_loop([reg |-> reg, delivered |-> {}, status |-> "ok"], farm_id, 1, failing)
    ELSE [reg |-> reg, delivered |-> {}, status |-> "ok"]

RECURSIVE items_loop(_, _, _, _)
\* `for connection_id, websocket in self.active_connections.items()`: the dict
\* iterator raises RuntimeError on its next step once the size has changed.
items_loop(st, i, size, failing) ==
    IF Len(st.reg.active) # size THEN [st EXCEPT !.status = "RuntimeError"]
    ELSE IF i > size THEN st
    ELSE items_loop(send_text_or_disconnect(st, st.reg.active[i].id, st.reg.active[i].ws, failing),
                    i + 1, size, failing)

\* ConnectionManager.broadcast_to_all.
broadcast_to_all_result(reg, failing) ==
    items_loop([reg |-> reg, delivered |-> {}, status |-> "ok"], 1, Len(reg.active), failing)

\* The websockets a send is aimed at: those registered under the ids.
TargetsOf(reg, ids) ==
    {reg.active[WebsocketOf(reg.active, id)].ws : id \in {x \in ids : InActive(reg.active, x)}}

SetRegistries(reg) ==
    /\ active_connections' = reg.active
    /\ farm_subscriptions' = reg.subs
    /\ websocket_farms' = reg.farms

\* websocket_farm_monitoring up to its receive loop: manager.connect accepts,
\* reads the clock (which need not have advanced since the last reading),
\* registers the connection and sends the welcome message.  Clients are
\* numbered in the order in which they connect.
ws_connect(h, farm_id) ==
    /\ ws_handlers[h].pc = "idle"
    /\ \A j \in 1..(h - 1) : ws_handlers[j].pc # "idle"
    /\ \E timestamp \in {ws_clock, ws_clock + 1}, welcome_fails \in BOOLEAN :
          LET connection_id == connection_id_of(farm_id, timestamp)
              failing == IF welcome_fails THEN broken \cup {h} ELSE broken
              st == send_personal_message(
                        [reg |-> register(Registries, connection_id, farm_id, h),
                         delivered |-> {}, status |-> "ok"],
                        connection_id, failing)
          IN  /\ ws_clock' = timestamp
              /\ broken' = failing
              /\ SetRegistries(st.reg)
              /\ ws_handlers' = [ws_handlers EXCEPT ![h] =
                                    [pc |-> "running", farm_id |-> farm_id,
                                     connection_id |-> connect_return_value(connection_id),
                                     registered |-> connection_id]]
    /\ UNCHANGED <<acqVars, fusionVars, aggVars, fnVars, last_send>>

\* The client goes away: receive_text raises WebSocketDisconnect, the loop
\* breaks and the finally clause calls manager.disconnect(connection_id).
ws_handler_ends(h) ==
    /\ ws_handlers[h].pc = "running"
    /\ SetRegistries(disconnect(Registries, ws_handlers[h].connection_id))
    /\ ws_handlers' = [ws_handlers EXCEPT ![h].pc = "ended"]
    /\ broken' = broken \cup {h}
    /\ UNCHANGED <<acqVars, fusionVars, aggVars, fnVars, ws_clock, last_send>>

\* The peer of a running handler stops reading: its next send_text raises.
socket_breaks(h) ==
    /\ ws_handlers[h].pc = "running"
    /\ h \notin broken
    /\ broken' = broken \cup {h}
    /\ UNCHANGED <<acqVars, fusionVars, aggVars, fnVars, active_connections, farm_subscriptions, websocket_farms, ws_handlers, ws_clock, last_send>>

\* notify_farm, periodic_data_updates or alert_monitoring calls send_to_farm.
send_to_farm(farm_id) ==
    /\ farm_id \in DOMAIN farm_subscriptions
    /\ LET st == send_to_farm_result(Registries, farm_id, broken)
           aimed == TargetsOf(Registries, SeqRange(farm_subscriptions[farm_id]))
       IN  /\ SetRegistries(st.reg)
           /\ last_send' = [op |-> "send_to_farm", farm_id |-> farm_id,
                            targets |-> aimed \ broken, failed |-> aimed \cap broken,
                            delivered |-> st.delivered, status |-> st.status]
    /\ UNCHANGED <<acqVars, fusionVars, aggVars, fnVars, ws_handlers, ws_clock, broken>>

\* broadcast_message calls broadcast_to_all.
broadcast_to_all ==
    /\ active_connections # <<>>
    /\ LET st == broadcast_to_all_result(Registries, broken)
           aimed == {active_connections[i].ws : i \in 1..Len(active_connections)}
       IN  /\ SetRegistries(st.reg)
           /\ last_send' = [op |-> "broadcast_to_all", farm_id |-> "",
                            targets |-> aimed \ broken, failed |-> aimed \cap broken,
                            delivered |-> st.delivered, status |-> st.status]
    /\ UNCHANGED <<acqVars, fusionVars, aggVars, fnVars, ws_handlers, ws_clock, broken>>

WsConnect == \E h \in Handlers, farm_id \in Farms : ws_connect(h, farm_id)

WsHandlerEnds == \E h \in Handlers : ws_handler_ends(h)

WsSocketBreaks == \E h \in Handlers : socket_breaks(h)

WsSendToFarm == \E farm_id \in Farms : send_to_farm(farm_id)

WsNext ==
    \/ WsConnect
    \/ WsHandlerEnds
    \/ WsSocketBreaks
    \/ WsSendToFarm
    \/ broadcast_to_all

WsSpecInit == WsIdle /\ AcqIdle /\ FusionIdle /\ AggIdle /\ FnIdle

\* The WebSocket service with up to MaxHandlers clients.
WsSpec == WsSpecInit /\ [][WsNext]_vars

\* ---- the arithmetic helpers applied to arguments of their own ----

\* The floats handed to _safe_divide: halves and thirds between -3 and 3.
DivideValues == {R(n, d) : n \in -6..6, d \in {2, 3}}

DivideInit ==
    /\ div_numerator \in DivideValues
    /\ div_denominator \in DivideValues
    /\ div_result = NotRun
    /\ stress_ndvi = EmptyDict
    /\ stress_lst = EmptyDict
    /\ stress_result = NotRun

SafeDivide ==
    /\ div_result = NotRun
    /\ div_result' = [status |-> "returned", value |-> safe_divide(div_numerator, div_denominator)]
    /\ UNCHANGED <<acqVars, fusionVars, aggVars, wsVars, div_numerator, div_denominator, stress_ndvi, stress_lst, stress_result>>

DivideSpecInit == DivideInit /\ AcqIdle /\ FusionIdle /\ AggIdle /\ WsIdle

\* _safe_divide on every modelled pair of floats.
DivideSpec == DivideSpecInit /\ [][SafeDivide]_vars

\* The ndvi_data dictionaries: no ndvi key, or an NDVI of every twentieth of [0, 1].
StressNdviInputs == {EmptyDict} \cup {[ndvi |-> R(k, 20)] : k \in 0..20}

\* The lst_data dictionaries: no average key, or an average temperature.
StressLstInputs == {EmptyDict} \cup {[average |-> R(t, 1)] : t \in {-10, 0, 20, 29, 30, 31, 35, 36, 50}}

StressInit ==
    /\ div_numerator = Zero
    /\ div_denominator = Zero
    /\ div_result = NotRun
    /\ stress_ndvi \in StressNdviInputs
    /\ stress_lst \in StressLstInputs
    /\ stress_result = NotRun

CalculateVegetationWaterStress ==
    /\ stress_result = NotRun
    /\ stress_result' = [status |-> "returned", value |-> calculate_vegetation_water_stress(stress_ndvi, stress_lst)]
    /\ UNCHANGED <<acqVars, fusionVars, aggVars, wsVars, div_numerator, div_denominator, div_result, stress_ndvi, stress_lst>>

StressSpecInit == StressInit /\ AcqIdle /\ FusionIdle /\ AggIdle /\ WsIdle

\* _calculate_vegetation_water_stress on every modelled pair of inputs.
StressSpec == StressSpecInit /\ [][CalculateVegetationWaterStress]_vars

\* ---- the steps that follow the index computations ----

\* models.py, USMI.get_category with > in place of >=.
get_category_strict(index) ==
    IF RLt(R(8, 10), index.value) THEN "optimal"
    ELSE IF RLt(R(6, 10), index.value) THEN "good"
    ELSE IF RLt(R(4, 10), index.value) THEN "moderate"
    ELSE IF RLt(R(2, 10), index.value) THEN "poor"
    ELSE "critical"

\* models.py, USMI.get_category.
get_category(index) ==
    IF RLe(R(8, 10), index.value) THEN "optimal"
    ELSE IF RLe(R(6, 10), index.value) THEN "good"
    ELSE IF RLe(R(4, 10), index.value) THEN "moderate"
    ELSE IF RLe(R(2, 10), index.value) THEN "poor"
    ELSE "critical"

assess_water_requirement_status(awli_value, water_needs) ==
    IF RLe(R(7, 10), awli_value) THEN "adequate"
    ELSE IF RLe(R(4, 10), awli_value) THEN "moderate"
    ELSE "critical"

generate_irrigation_recommendations(awli_value, crop_type) ==
    IF RLt(awli_value, R(3, 10))
    THEN <<"Immediate irrigation required",
           "Apply 15-20mm water for " \o crop_type,
           "Monitor soil moisture closely">>
    ELSE IF RLt(awli_value, R(5, 10))
    THEN <<"Irrigation recommended within 2 days",
           "Apply 10-15mm water for " \o crop_type,
           "Check weather forecast before irrigation">>
    ELSE <<"Water levels adequate, continue monitoring">>

\* USMI, AWLI and PAOI objects as the index computations build them from a
\* value: the fields the later steps read.
UsmiOf(v) ==
    [status |-> "ok", value |-> v,
     recommendations |-> generate_usmi_recommendations(v, EmptyDict)]

AwliOf(v, crop_type) ==
    [status |-> "ok", value |-> v, crop_type |-> crop_type,
     water_needs |-> get_crop_water_requirements(crop_databases.corn, "vegetative"),
     irrigation_recommendations |-> generate_irrigation_recommendations(v, crop_type)]

PaoiOf(v) ==
    [status |-> "ok", value |-> v,
     recommendations |-> generate_pesticide_recommendations(v, EmptyDict)]

\* The index values the ladders are applied to: every twentieth of [0, 1].
LadderValues == {R(k, 20) : k \in 0..20}

LadderInit ==
    /\ request = NoRequest
    /\ hpc = "idle"
    /\ response = NoResponse
    /\ raw_data = <<>>
    /\ crop_arg = "corn"
    /\ pest_arg = "general"
    /\ usmi \in {UsmiOf(v) : v \in LadderValues}
    /\ awli \in {AwliOf(v, crop_arg) : v \in LadderValues}
    /\ paoi = NotComputed

GetCategory ==
    /\ category = ""
    /\ category' = get_category(usmi)
    /\ UNCHANGED <<acqVars, fusionVars, wsVars, fnVars, hash_seed, alerts, recommendations, rerun, water_status>>

AssessWaterRequirementStatus ==
    /\ water_status = ""
    /\ water_status' = assess_water_requirement_status(awli.value, awli.water_needs)
    /\ UNCHANGED <<acqVars, fusionVars, wsVars, fnVars, hash_seed, alerts, recommendations, rerun, category>>

LadderNext ==
    \/ GetCategory
    \/ AssessWaterRequirementStatus

LadderSpecInit == LadderInit /\ AcqIdle /\ AggIdle /\ FnIdle /\ WsIdle

\* The two status ladders on every modelled value.
LadderSpec == LadderSpecInit /\ [][LadderNext]_vars

\* ---- generate_alerts and generate_integrated_recommendations ----

RECURSIVE Dedup(_)
\* The distinct elements of a list, in order of first occurrence.
Dedup(s) ==
    IF s = <<>> THEN <<>>
    ELSE LET rest == Dedup(SubSeq(s, 1, Len(s) - 1))
             x == s[Len(s)]
         IN  IF \E i \in 1..Len(rest) : rest[i] = x THEN rest ELSE Append(rest, x)

\* The string-hash seeds of the process: each fixes one iteration order of a
\* set of strings for the life of the process.
HashSeeds == {0, 1, 2}

SetOrder(s, seed) ==
    CASE seed = 0 -> s
      [] seed = 1 -> [i \in 1..Len(s) |-> s[Len(s) + 1 - i]]
      [] OTHER -> IF s = <<>> THEN s ELSE Tail(s) \o <<Head(s)>>

\* list(...) in place of list(set(...)): every element kept.
list_keep_all(s, seed) == SetOrder(s, seed)

\* list(set(s)): the distinct strings of s in the order the seed gives.
list_set(s, seed) == SetOrder(Dedup(s), seed)

\* The integrated insight with the bounds included.
integrated_insight_inclusive(u, a, p) ==
    IF RLe(u.value, R(4, 10)) /\ RLe(a.value, R(4, 10))
    THEN <<"CRITICAL: Both soil moisture and water levels are low - immediate action required">>
    ELSE IF RLe(R(7, 10), p.value) /\ RLe(R(6, 10), u.value)
    THEN <<"Optimal conditions for integrated crop management">>
    ELSE <<>>

\* The if / elif that appends at most one cross-cutting message.
integrated_insight(u, a, p) ==
    IF RLt(u.value, R(4, 10)) /\ RLt(a.value, R(4, 10))
    THEN <<"CRITICAL: Both soil moisture and water levels are low - immediate action required">>
    ELSE IF RLt(R(7, 10), p.value) /\ RLt(R(6, 10), u.value)
    THEN <<"Optimal conditions for integrated crop management">>
    ELSE <<>>

generate_integrated_recommendations(u, a, p, seed) ==
    list_set(u.recommendations \o a.irrigation_recommendations \o p.recommendations
                 \o integrated_insight(u, a, p),
             seed)

\* The three tests chained with elif: at most one alert.
generate_alerts_first_only(u, a, p) ==
    IF RLt(u.value, R(2, 10)) THEN <<"CRITICAL: Extremely low soil moisture detected">>
    ELSE IF RLt(a.value, R(2, 10)) THEN <<"CRITICAL: Critical water shortage detected">>
    ELSE IF RLt(p.value, R(3, 10)) THEN <<"WARNING: Poor conditions for pest management">>
    ELSE <<>>

generate_alerts(u, a, p) ==
    (IF RLt(u.value, R(2, 10)) THEN <<"CRITICAL: Extremely low soil moisture detected">> ELSE <<>>)
    \o (IF RLt(a.value, R(2, 10)) THEN <<"CRITICAL: Critical water shortage detected">> ELSE <<>>)
    \o (IF RLt(p.value, R(3, 10)) THEN <<"WARNING: Poor conditions for pest management">> ELSE <<>>)

\* The values of the three indices handed to the two functions.
AggUsmiValues == {R(0, 1), R(3, 20), R(1, 5), R(3, 10), R(2, 5), R(1, 2), R(3, 5), R(13, 20), R(4, 5), R(9, 10)}

AggAwliValues == {R(0, 1), R(3, 20), R(1, 5), R(3, 10), R(2, 5), R(1, 2), R(9, 10)}

AggPaoiValues == {R(1, 10), R(3, 10), R(2, 5), R(7, 10), R(3, 4), R(9, 10)}

\* A USMI object whose recommendations field, a free List[str], repeats the
\* AWLI advice of the same situation.
UsmiRepeating(v) ==
    [UsmiOf(v) EXCEPT !.recommendations =
        @ \o <<"Monitor soil moisture closely", "Monitor soil moisture closely">>]

AggInit ==
    /\ request = NoRequest
    /\ hpc = "idle"
    /\ response = NoResponse
    /\ raw_data = <<>>
    /\ crop_arg = "corn"
    /\ pest_arg = "general"
    /\ usmi \in {UsmiOf(v) : v \in AggUsmiValues} \cup {UsmiRepeating(v) : v \in AggUsmiValues}
    /\ awli \in {AwliOf(v, crop_arg) : v \in AggAwliValues}
    /\ paoi \in {PaoiOf(v) : v \in AggPaoiValues}

AggSpecInit ==
    /\ AggInit
    /\ AcqIdle
    /\ FnIdle
    /\ WsIdle
    /\ hash_seed \in HashSeeds
    /\ alerts = NotRun
    /\ recommendations = NotRun
    /\ rerun = NotRun
    /\ category = ""
    /\ water_status = ""

GenerateIntegratedRecommendations ==
    /\ recommendations = NotRun
    /\ recommendations' =
          [status |-> "returned",
           value |-> generate_integrated_recommendations(usmi, awli, paoi, hash_seed)]
    /\ UNCHANGED <<acqVars, fusionVars, wsVars, fnVars, hash_seed, alerts, rerun, category, water_status>>

GenerateAlerts ==
    /\ alerts = NotRun
    /\ alerts' = [status |-> "returned", value |-> generate_alerts(usmi, awli, paoi)]
    /\ UNCHANGED <<acqVars, fusionVars, wsVars, fnVars, hash_seed, recommendations, rerun, category, water_status>>

AggNext ==
    \/ GenerateIntegratedRecommendations
    \/ GenerateAlerts

\* The alerts and the integrated recommendations of every modelled triple of
\* indices, under every modelled hash seed.
AggSpec == AggSpecInit /\ [][AggNext]_vars

\* The three index computations called a second time with the arguments of
\* the first call: _extract_wind_data and _mock_aerosol_data draw again.
RerunIndices ==
    /\ hpc = "idle"
    /\ TaskDone(usmi) /\ TaskDone(awli) /\ TaskDone(paoi)
    /\ rerun = NotRun
    /\ \E wind_speed \in WindSpeeds, aod_550 \in AerosolDepths :
          rerun' = [status |-> "run",
                    usmi |-> compute_unified_soil_moisture_index(raw_data),
                    awli |-> compute_agricultural_water_level_indicator(raw_data, crop_arg),
                    paoi |-> compute_pesticide_application_optimization_index(
                                 raw_data, crop_arg, pest_arg, wind_speed, aod_550)]
    /\ UNCHANGED <<acqVars, fusionVars, wsVars, fnVars, hash_seed, alerts, recommendations, category, water_status>>

RepeatNext ==
    \/ ComputeUSMI
    \/ ComputeAWLI
    \/ ComputePAOI
    \/ RerunIndices

\* The index computations run twice on one raw-data map: a map that
\* _generate_mock_nasa_data returns for the default dataset list, or one of
\* PaoiExtraMaps.
RepeatInit ==
    /\ HandlerIdle
    /\ raw_data \in MockMaps(AllDatasets) \cup PaoiExtraMaps
    /\ crop_arg \in CropTypes
    /\ pest_arg \in TargetPests
    /\ usmi = NotComputed
    /\ awli = NotComputed
    /\ paoi = NotComputed

RepeatSpecInit == RepeatInit /\ AcqIdle /\ AggIdle /\ FnIdle /\ WsIdle

RepeatSpec == RepeatSpecInit /\ [][RepeatNext]_vars

(***************************************************************************)
(* Claims about the acquisition.                                           *)
(***************************************************************************)

Returned == ingest_pc \in {"fetched", "completed"}

LastSlotOf(d) == CHOOSE i \in Slots : datasets[i] = d /\ \A j \in Slots : datasets[j] = d => j <= i

\* The entry the organising loop writes for slot i.
SlotEntry(i) == IF results[i].kind = "exception" THEN None ELSE results[i]

\* C1 (as claimed): a slot whose id is not one of the eight known ids makes
\* exactly one attempt, incurs no backoff wait and fails; its map entry is None.
C1_UnknownIdSingleAttempt ==
    \A i \in Slots :
        ~is_known_dataset(datasets[i]) =>
            /\ Len(outcomes[i]) <= 1
            /\ waits[i] = <<>>
            /\ Returned => data_results[datasets[i]] = None

\* C2: a slot with a known id never makes more than 3 attempts, and when its
\* _fetch_dataset returns, the record is the one of the first attempt that
\* succeeded: every earlier attempt raised and the record is that attempt's.
C2_FirstSuccessWithinThree ==
    \A i \in Slots :
        is_known_dataset(datasets[i]) =>
            /\ Len(outcomes[i]) <= 3
            /\ fpc[i] = "done" =>
                  /\ outcomes[i][Len(outcomes[i])] = "returned"
                  /\ \A k \in 1..(Len(outcomes[i]) - 1) : outcomes[i][k] = "raised"
                  /\ results[i] = Record(datasets[i], Len(outcomes[i]))

C2_Witness ==
    \E i \in Slots :
        /\ is_known_dataset(datasets[i])
        /\ fpc[i] = "done"
        /\ outcomes[i] = <<"raised", "raised", "returned">>
        /\ results[i] = Record(datasets[i], 3)

NumRaised(i) == Cardinality({k \in 1..Len(outcomes[i]) : outcomes[i][k] = "raised"})

\* C3: a slot with a known id has waited 2^k after failed attempt k (k = 0, 1)
\* and nothing after the third failure: its waits are <<>>, <<1>> or <<1, 2>>,
\* one per failure up to two.  After three failures the failure is final and
\* the organising loop writes None for the slot, which is the map's entry for
\* the id when the slot is the id's last occurrence in the request.
C3_ExponentialBackoff ==
    \A i \in Slots :
        is_known_dataset(datasets[i]) =>
            /\ Len(waits[i]) = (IF NumRaised(i) <= 2 THEN NumRaised(i) ELSE 2)
            /\ \A k \in 1..Len(waits[i]) : waits[i][k] = Pow2(k - 1)
            /\ fpc[i] = "sleeping" => Len(waits[i]) = NumRaised(i)
            /\ NumRaised(i) = 3 =>
                  /\ fpc[i] = "failed"
                  /\ waits[i] = <<1, 2>>
                  /\ SlotEntry(i) = None
                  /\ (Returned /\ i = LastSlotOf(datasets[i])) =>
                        data_results[datasets[i]] = None

C3_Witness ==
    \E i \in Slots :
        /\ is_known_dataset(datasets[i])
        /\ fpc[i] = "failed"
        /\ waits[i] = <<1, 2>>
        /\ Returned
        /\ data_results[datasets[i]] = None

\* C4 (as claimed): the returned map has one entry per requested id; the
\* entry of a slot that failed permanently is None and the entry of every
\* slot that succeeded is that slot's record.
C4_OneEntryPerSlot ==
    Returned =>
        /\ DOMAIN data_results = {datasets[i] : i \in Slots}
        /\ \A i \in Slots :
              /\ fpc[i] = "failed" => data_results[datasets[i]] = None
              /\ fpc[i] = "done" => data_results[datasets[i]] = results[i]

\* What does hold of the map: one entry per requested id, each the outcome
\* of the id's last occurrence in the request list.
MapHoldsLastOccurrence ==
    Returned =>
        /\ DOMAIN data_results = {datasets[i] : i \in Slots}
        /\ \A d \in DOMAIN data_results : data_results[d] = SlotEntry(LastSlotOf(d))

\* Every attempt of every fetcher terminates: no slot awaits a fetcher forever.
EveryAttemptTerminates ==
    \A i \in 1..MaxSlots : []<>(i \in Slots => fpc[i] # "fetching")

\* C5: bulk_data_fetch has not returned while a slot is not terminal, and if
\* every fetch attempt terminates, a started bulk_data_fetch returns.
C5_ReturnsWhenAllTerminal ==
    /\ [](Returned => \A i \in Slots : SlotTerminal(i))
    /\ EveryAttemptTerminates => ((ingest_pc = "gathering") ~> Returned)

C5_Witness ==
    /\ ingest_pc = "fetched"
    /\ Len(datasets) = 2
    /\ fpc[1] = "failed"
    /\ fpc[2] = "done"

\* C6 (as claimed): the acquisition of an accepted request finishes and its
\* result is delivered, whether or not every fetch completes.
C6_DeadlineDelivers ==
    (ingest_pc = "gathering") ~> (ingest_pc = "completed")

(***************************************************************************)
(* Claims about the index computations.                                    *)
(***************************************************************************)

\* C9: for every raw-data map, compute_unified_soil_moisture_index yields a
\* USMI (the model's validation accepts it) whose value and confidence lie
\* in [0,1].
C9_UsmiInUnitInterval ==
    usmi # NotComputed =>
        /\ usmi.status = "ok"
        /\ InUnit(usmi.value)
        /\ InUnit(usmi.confidence)

\* The two ends of the range are reached: a map of high records gives value
\* 1, and a map with degraded flags gives confidence below 1.
C9_Witness ==
    /\ usmi # NotComputed
    /\ usmi.value = One
    /\ "smap_l3" \in DOMAIN raw_data

\* C10 (as claimed): for every raw-data map and crop type,
\* compute_agricultural_water_level_indicator yields an AWLI whose value, the
\* weighted sum of its five components, lies in [0,1].
C10_AwliInUnitInterval ==
    awli # NotComputed =>
        /\ awli.status = "ok"
        /\ InUnit(awli.value)

\* The et_ratio the computation holds when it stops is not clamped either:
\* it exceeds 1 whenever actual ET exceeds potential ET.
EtRatioAtMostOne == awli # NotComputed => RLe(awli.et_ratio, One)

(***************************************************************************)
(* Claims about the handler compute_unified_metrics.                       *)
(***************************************************************************)

WellFormed(req) ==
    /\ -90 <= req.lat /\ req.lat <= 90
    /\ -180 <= req.lon /\ req.lon <= 180
    /\ req.start <= req.end

\* C7 (as claimed): a request with in-range coordinates and a well-ordered
\* date range is answered with a FusionResult, never with a request failure.
C7_ValidRequestGetsResult ==
    (hpc = "responded" /\ WellFormed(request)) => response.status = 200

\* C8 (as claimed): a request whose date range has start later than end is
\* rejected before any acquisition: no fetch and no index computation
\* happens for it.
C8_ReversedRangeRejected ==
    request.start > request.end =>
        /\ hpc \in {"idle", "received", "rejected"}
        /\ raw_data = <<>>
        /\ usmi = NotComputed /\ awli = NotComputed /\ paoi = NotComputed

(***************************************************************************)
(* Claims about the pesticide index.                                       *)
(***************************************************************************)

\* PAOI.get_confidence: min(1.0, np.mean(list(self.components.values()))).
paoi_get_confidence(p) == RMin(One, ComponentMean(p.components))

ComponentsInUnit(p) ==
    /\ InUnit(p.components.vegetation_stress)
    /\ InUnit(p.components.pest_favorable_conditions)
    /\ InUnit(p.components.weather_suitability)
    /\ InUnit(p.components.phenology_timing)
    /\ InUnit(p.components.spray_drift_risk)

\* C11 (as claimed): for every raw-data map, crop type and target pest,
\* compute_pesticide_application_optimization_index yields a PAOI whose
\* value, five components, confidence and environmental_impact_score all
\* lie in [0,1].
C11_PaoiInUnitInterval ==
    paoi # NotComputed =>
        /\ paoi.status = "ok"
        /\ InUnit(paoi.value)
        /\ ComponentsInUnit(paoi)
        /\ InUnit(paoi.environmental_impact_score)
        /\ ~get_confidence_raises
        /\ InUnit(paoi_get_confidence(paoi))

\* The components alone, for the maps on which the computation gets as far
\* as building them.
PaoiComponentsInUnit ==
    (paoi # NotComputed /\ "components" \in DOMAIN paoi) => ComponentsInUnit(paoi)

\* C12 (as claimed): two runs of the index computations on the same raw-data
\* map, crop type and target pest give identical results.
C12_RepeatedRunsIdentical ==
    rerun # NotRun =>
        /\ rerun.usmi = usmi
        /\ rerun.awli = awli
        /\ rerun.paoi = paoi

\* The part of it that does hold: USMI is a function of the raw-data map.
UsmiRepeatable == rerun # NotRun => rerun.usmi = usmi

(***************************************************************************)
(* Claims about data quality and uncertainty.                              *)
(***************************************************************************)

\* C13: _assess_data_quality gives every record of the raw map exactly one
\* weight, by its quality flag: good 1.0, marginal 0.7, any other flag 0.4,
\* no flag 0.8.
C13_QualityWeightByFlag ==
    usmi # NotComputed =>
        /\ DOMAIN usmi.quality_weights = DOMAIN raw_data
        /\ \A ds \in DOMAIN raw_data :
              LET w == usmi.quality_weights[ds]
                  flagged == "quality_flag" \in DOMAIN raw_data[ds]
              IN  /\ ~flagged => w = R(8, 10)
                  /\ (flagged /\ raw_data[ds].quality_flag = "good") => w = One
                  /\ (flagged /\ raw_data[ds].quality_flag = "marginal") => w = R(7, 10)
                  /\ (flagged /\ raw_data[ds].quality_flag \notin {"good", "marginal"}) =>
                        w = R(4, 10)

\* A map holding a good, a marginal, an otherwise flagged and an unflagged record.
C13_Witness ==
    /\ usmi # NotComputed
    /\ DOMAIN raw_data = {"gpm", "smap_l3", "smap_l4", "ecostress"}
    /\ usmi.quality_weights =
          [gpm |-> One, smap_l3 |-> R(7, 10), smap_l4 |-> R(4, 10), ecostress |-> R(8, 10)]

UsmiDatasetSeq == <<"smap_l3", "smap_l4", "gpm", "modis_lst", "ecostress">>

\* min(0.5, sum of (1 - weight) * 0.1) over the contributing datasets present.
ContributingUncertainty ==
    RMin(Half,
         RSum([k \in 1..Len(UsmiDatasetSeq) |->
                  IF UsmiDatasetSeq[k] \in DOMAIN raw_data
                  THEN RMul(RSub(One, usmi.quality_weights[UsmiDatasetSeq[k]]), R(1, 10))
                  ELSE Zero]))

\* C14 (as claimed): USMI uncertainty is min(0.5, sum of (1 - weight) * 0.1)
\* over the five datasets that contribute to USMI and confidence is
\* 1 - uncertainty; so when each of the five has weight 1.0, uncertainty is 0
\* and confidence is 1, whatever else the raw map holds.
C14_UncertaintyOverContributing ==
    usmi # NotComputed =>
        /\ usmi.uncertainty = ContributingUncertainty
        /\ usmi.confidence = RSub(One, usmi.uncertainty)
        /\ (\A ds \in UsmiDatasets : Get(usmi.quality_weights, ds, One) = One) =>
              (usmi.uncertainty = Zero /\ usmi.confidence = One)

\* What the code computes: the sum runs over every entry of the raw map.
UncertaintyOverAllEntries ==
    usmi # NotComputed =>
        /\ usmi.uncertainty =
              RMin(Half, RSum([k \in 1..Len(KeysInOrder(raw_data)) |->
                         RMul(RSub(One, usmi.quality_weights[KeysInOrder(raw_data)[k]]),
                              R(1, 10))]))
        /\ usmi.confidence = RSub(One, usmi.uncertainty)

(***************************************************************************)
(* Claims about the status ladders, the alerts and the recommendations.    *)
(***************************************************************************)

CategoryRank(c) ==
    CASE c = "critical" -> 0 [] c = "poor" -> 1 [] c = "moderate" -> 2
      [] c = "good" -> 3 [] c = "optimal" -> 4

StatusRank(c) == CASE c = "critical" -> 0 [] c = "moderate" -> 1 [] c = "adequate" -> 2

Between(lo, v, hi) == RLe(lo, v) /\ RLt(v, hi)

\* C15: each ladder maps every value of [0,1] to exactly one category, the
\* one of its band with a boundary value in the higher band (USMI: 0.2, 0.4,
\* 0.6, 0.8; AWLI status: 0.4, 0.7), and never ranks a smaller value higher.
C15_LaddersExhaustiveMonotonic ==
    /\ category # "" =>
          /\ category = "critical" <=> RLt(usmi.value, R(2, 10))
          /\ category = "poor" <=> Between(R(2, 10), usmi.value, R(4, 10))
          /\ category = "moderate" <=> Between(R(4, 10), usmi.value, R(6, 10))
          /\ category = "good" <=> Between(R(6, 10), usmi.value, R(8, 10))
          /\ category = "optimal" <=> RLe(R(8, 10), usmi.value)
          /\ \A v \in LadderValues :
                RLe(v, usmi.value) =>
                    CategoryRank(get_category(UsmiOf(v))) <= CategoryRank(category)
    /\ water_status # "" =>
          /\ water_status = "critical" <=> RLt(awli.value, R(4, 10))
          /\ water_status = "moderate" <=> Between(R(4, 10), awli.value, R(7, 10))
          /\ water_status = "adequate" <=> RLe(R(7, 10), awli.value)
          /\ \A v \in LadderValues :
                RLe(v, awli.value) =>
                    StatusRank(assess_water_requirement_status(v, awli.water_needs))
                        <= StatusRank(water_status)

\* Boundary values 0.2 and 0.7 land in the higher bands.
C15_Witness ==
    /\ usmi.value = R(2, 10) /\ category = "poor"
    /\ awli.value = R(7, 10) /\ water_status = "adequate"

HasReturned(r) == r.status = "returned"

Has(r, msg) == \E i \in 1..Len(r.value) : r.value[i] = msg

Range(seq) == {seq[i] : i \in 1..Len(seq)}

\* C16: generate_alerts emits the soil-moisture critical alert exactly when
\* USMI < 0.2, the water-shortage critical alert exactly when AWLI < 0.2 and
\* the pest-management warning exactly when PAOI < 0.3, each whatever the
\* other two values are, and emits nothing else.
C16_AlertsByThreshold ==
    HasReturned(alerts) =>
        /\ Has(alerts, "CRITICAL: Extremely low soil moisture detected")
                <=> RLt(usmi.value, R(2, 10))
        /\ Has(alerts, "CRITICAL: Critical water shortage detected")
                <=> RLt(awli.value, R(2, 10))
        /\ Has(alerts, "WARNING: Poor conditions for pest management")
                <=> RLt(paoi.value, R(3, 10))
        /\ Range(alerts.value) \subseteq
                {"CRITICAL: Extremely low soil moisture detected",
                 "CRITICAL: Critical water shortage detected",
                 "WARNING: Poor conditions for pest management"}

\* USMI 0.15 and AWLI 0.15 with a PAOI above its threshold: both critical
\* alerts and no warning.
C16_Witness ==
    /\ HasReturned(alerts)
    /\ usmi.value = R(3, 20) /\ awli.value = R(3, 20) /\ paoi.value = R(9, 10)
    /\ alerts.value = <<"CRITICAL: Extremely low soil moisture detected",
                        "CRITICAL: Critical water shortage detected">>

\* C17: the integrated recommendations hold the combined critical message
\* exactly when USMI < 0.4 and AWLI < 0.4, and the optimal integrated
\* management message exactly when PAOI > 0.7 and USMI > 0.6.
C17_CrossCuttingMessages ==
    HasReturned(recommendations) =>
        /\ Has(recommendations, "CRITICAL: Both soil moisture and water levels are low - immediate action required")
                <=> (RLt(usmi.value, R(4, 10)) /\ RLt(awli.value, R(4, 10)))
        /\ Has(recommendations, "Optimal conditions for integrated crop management")
                <=> (RLt(R(7, 10), paoi.value) /\ RLt(R(6, 10), usmi.value))

\* The elif branch: PAOI 0.75 with USMI 0.65 yields the optimal message, and
\* AWLI below 0.4 alone does not yield the critical one.
C17_Witness ==
    /\ HasReturned(recommendations)
    /\ paoi.value = R(3, 4) /\ usmi.value = R(13, 20) /\ awli.value = R(3, 10)
    /\ Has(recommendations, "Optimal conditions for integrated crop management")
    /\ ~Has(recommendations, "CRITICAL: Both soil moisture and water levels are low - immediate action required")

\* The cross-cutting message that applies, read off the two conditions.
ApplicableMessages ==
    (IF RLt(usmi.value, R(4, 10)) /\ RLt(awli.value, R(4, 10))
     THEN {"CRITICAL: Both soil moisture and water levels are low - immediate action required"}
     ELSE {})
    \cup (IF RLt(R(7, 10), paoi.value) /\ RLt(R(6, 10), usmi.value)
          THEN {"Optimal conditions for integrated crop management"}
          ELSE {})

\* C18: the returned list holds no string twice, and its strings are exactly
\* those of USMI.recommendations, AWLI.irrigation_recommendations and
\* PAOI.recommendations plus the applicable cross-cutting message.
C18_MergeIsDeduplicatedUnion ==
    HasReturned(recommendations) =>
        /\ \A i, j \in 1..Len(recommendations.value) :
                recommendations.value[i] = recommendations.value[j] => i = j
        /\ Range(recommendations.value) =
                Range(usmi.recommendations) \cup Range(awli.irrigation_recommendations)
                    \cup Range(paoi.recommendations) \cup ApplicableMessages

\* An input that repeats a string, three times over two lists, merged with the
\* combined critical message under a non-trivial iteration order.
C18_Witness ==
    /\ HasReturned(recommendations)
    /\ hash_seed = 1
    /\ usmi = UsmiRepeating(R(3, 20))
    /\ awli.value = R(3, 20)
    /\ Has(recommendations, "Monitor soil moisture closely")
    /\ Has(recommendations, "CRITICAL: Both soil moisture and water levels are low - immediate action required")
    /\ Len(recommendations.value) = 10

(***************************************************************************)
(* Claims about unmapped crop types and pests.                             *)
(***************************************************************************)

\* C19: the AWLI computation called with a crop type absent from the crop
\* database completes without raising and uses the "corn" entry.
C19_UnmappedCropFallsBackToCorn ==
    (awli # NotComputed /\ Lower(crop_arg) \notin DOMAIN crop_databases) =>
        /\ ~TaskRaised(awli)
        /\ awli.crop_entry = "corn"

\* The lookup alone: an unmapped crop type selects the "corn" entry and its
\* water requirement before the computation reaches the components.
UnmappedCropSelectsCorn ==
    (awli # NotComputed /\ Lower(crop_arg) \notin DOMAIN crop_databases) =>
        /\ awli.crop_entry = "corn"
        /\ awli.crop_water_needs =
              get_crop_water_requirements(
                  crop_databases.corn,
                  Get(process_vegetation_indices(Get(raw_data, "modis_vegetation", EmptyDict)),
                      "phenology_stage", "vegetative"))

\* The six (stage, pest) keys of the timing lookup.
TimingLookupKeys ==
    {<<"vegetative", "corn_borer">>, <<"reproductive", "corn_borer">>,
     <<"vegetative", "aphids">>, <<"reproductive", "aphids">>,
     <<"vegetative", "rust">>, <<"reproductive", "rust">>}

\* The growth stage the PAOI computation derives from the raw map.
StageOfRun == determine_phenology_stage(Get(raw_data, "modis_vegetation", EmptyDict), crop_arg)

\* C20: for every (growth stage, pest) pair outside the six entries of the
\* timing lookup, the phenology_timing component of PAOI is exactly 0.6.
C20_UnlistedPairScoresDefault ==
    ("components" \in DOMAIN paoi /\ <<StageOfRun, pest_arg>> \notin TimingLookupKeys) =>
        paoi.components.phenology_timing = R(6, 10)

\* A PAOI object for stage 'maturity' and pest 'rust', a pair outside the
\* lookup whose pest is inside it.
C20_Witness ==
    /\ paoi.status = "ok"
    /\ StageOfRun = "maturity"
    /\ pest_arg = "rust"
    /\ paoi.components.phenology_timing = R(3, 5)

(***************************************************************************)
(* Claims about missing datasets and the arithmetic guards.                *)
(***************************************************************************)

\* The dataset whose quality weight multiplies each component.
ComponentDataset ==
    [surface_moisture |-> "smap_l3", root_zone_moisture |-> "smap_l4",
     precipitation_factor |-> "gpm", temperature_stress |-> "modis_lst",
     et_deficit |-> "ecostress"]

\* The datasets each component is computed from.
ComponentReads ==
    [surface_moisture |-> {"smap_l3"}, root_zone_moisture |-> {"smap_l4"},
     precipitation_factor |-> {"gpm"}, temperature_stress |-> {"modis_lst"},
     et_deficit |-> {"ecostress", "gpm"}]

MissingTakeFallback ==
    /\ usmi.status = "ok"
    /\ "smap_l3" \notin DOMAIN raw_data => usmi.components.surface_moisture = R(1, 2)
    /\ "smap_l4" \notin DOMAIN raw_data => usmi.components.root_zone_moisture = R(6, 10)
    /\ "gpm" \notin DOMAIN raw_data => usmi.components.precipitation_factor = R(20, 35)
    /\ "modis_lst" \notin DOMAIN raw_data => usmi.components.temperature_stress = One

\* C21 (as amended): for every subset of missing datasets the USMI
\* computation completes, a component whose dataset is missing takes its
\* fallback (surface_moisture 0.5, root_zone_moisture 0.6), and removing one
\* more dataset changes no component that is computed from other datasets;
\* et_deficit is computed from ecostress and from gpm.
C21_MissingDatasetsFallBack ==
    usmi # NotComputed =>
        /\ MissingTakeFallback
        /\ \A d \in DOMAIN raw_data :
              LET r == compute_unified_soil_moisture_index(Without(raw_data, d))
              IN  /\ r.status = "ok"
                  /\ \A c \in DOMAIN ComponentReads :
                        d \notin ComponentReads[c] => r.components[c] = usmi.components[c]

\* C21 (as stated): the same, with every component belonging to the one
\* dataset whose weight multiplies it, so that the component of a present
\* dataset is unaffected by any other dataset going missing.
C21_PresentComponentsUnaffected ==
    usmi # NotComputed =>
        /\ MissingTakeFallback
        /\ \A d \in DOMAIN raw_data :
              LET r == compute_unified_soil_moisture_index(Without(raw_data, d))
              IN  /\ r.status = "ok"
                  /\ \A c \in DOMAIN ComponentDataset :
                        d # ComponentDataset[c] => r.components[c] = usmi.components[c]

\* Both SMAP datasets missing, the other three present: the two fallbacks.
C21_Witness ==
    /\ usmi # NotComputed
    /\ DOMAIN raw_data = {"gpm", "modis_lst", "ecostress"}
    /\ usmi.components.surface_moisture = R(1, 2)
    /\ usmi.components.root_zone_moisture = R(3, 5)

\* C22: _safe_divide(x, 0) returns 0 for every x, x = 0 included, and never
\* raises; for a non-zero denominator it returns the quotient.
C22_SafeDivideTotal ==
    HasReturned(div_result) =>
        /\ div_denominator = Zero => div_result.value = Zero
        /\ div_denominator # Zero => RMul(div_result.value, div_denominator) = div_numerator

\* 0 / 0 returned 0.
C22_Witness ==
    /\ HasReturned(div_result)
    /\ div_numerator = Zero
    /\ div_denominator = Zero
    /\ div_result.value = Zero

\* C23: the three index computations, in any order over the same raw-data
\* map, leave the map unchanged: no step changes a dataset record or field.
C23_RawDataUnchanged == [][raw_data' = raw_data]_vars

\* All three computations have finished on a map that lacks most of the
\* datasets they read.
C23_Witness ==
    /\ TaskDone(usmi) /\ TaskDone(awli) /\ TaskDone(paoi)
    /\ DOMAIN raw_data = {"modis_lst"}

(***************************************************************************)
(* Claims about the PAOI environmental impact and the numeric inputs.      *)
(***************************************************************************)

\* C24: the environmental_impact_score of PAOI is the average of
\* weather_suitability and 1 - drift_risk, drift_risk being what
\* _calculate_spray_drift_risk returned.
C24_ImpactAveragesInvertedDrift ==
    "components" \in DOMAIN paoi =>
        paoi.environmental_impact_score =
            RDiv(RAdd(paoi.components.weather_suitability, RSub(One, paoi.drift_risk)),
                 R(2, 1))

\* What the computation yields: the average of weather_suitability and the
\* drift risk itself, the stored component being inverted a second time.
ImpactAveragesDrift ==
    "components" \in DOMAIN paoi =>
        /\ paoi.components.spray_drift_risk = RSub(One, paoi.drift_risk)
        /\ paoi.environmental_impact_score =
              RDiv(RAdd(paoi.components.weather_suitability, paoi.drift_risk), R(2, 1))

\* C26: the PAOI computation never fails on its numeric inputs: for every
\* average temperature, 0 included, and every precipitation total it
\* completes and returns a result.
C26_PaoiNeverFailsOnNumbers ==
    paoi # NotComputed => ~TaskRaised(paoi)

\* Away from an average temperature of 0 the humidity proxy is computed and
\* is at most 1.
HumidityProxyDefinedOffZero ==
    (paoi # NotComputed /\ humidity_divides(Get(raw_data, "modis_lst", EmptyDict))) =>
        /\ paoi.status # "ZeroDivisionError"
        /\ RLe(calculate_humidity_proxy(Get(raw_data, "gpm", EmptyDict),
                                        Get(raw_data, "modis_lst", EmptyDict)), One)

\* The run on an average temperature of 0 ended in the division by temp * 2.
PaoiDividedByZero ==
    /\ paoi.status = "ZeroDivisionError"
    /\ Get(Get(raw_data, "modis_lst", EmptyDict), "average", R(25, 1)) = Zero

\* The NDVI and the temperature _calculate_vegetation_water_stress works on.
StressNdvi == Get(stress_ndvi, "ndvi", Half)

StressLst == Get(stress_lst, "average", R(25, 1))

\* The three cases of the water-stress normalizer, in the order of the code.
StressPiecewise ==
    HasReturned(stress_result) =>
        stress_result.value =
            IF RLt(R(6, 10), StressNdvi) /\ RLt(StressLst, R(30, 1)) THEN One
            ELSE IF RLt(StressNdvi, R(4, 10)) \/ RLt(R(35, 1), StressLst) THEN Zero
            ELSE RDiv(RSub(StressNdvi, R(4, 10)), R(2, 10))

\* C25: for every NDVI in [0,1] and every land-surface temperature the
\* vegetation water-stress normalizer returns a value in [0,1]: 1 if
\* ndvi > 0.6 and temperature < 30, 0 if ndvi < 0.4 or temperature > 35,
\* and (ndvi - 0.4) / 0.2 otherwise.
C25_WaterStressInUnitInterval ==
    (HasReturned(stress_result) /\ InUnit(StressNdvi)) =>
        /\ InUnit(stress_result.value)
        /\ StressPiecewise

(***************************************************************************)
(* Claims about the absent marker in the raw map.                          *)
(***************************************************************************)

HasNoneEntry(raw) == \E d \in DOMAIN raw : raw[d] = None

\* The raw map without its None entries.
DropNone(raw) == [d \in {k \in DOMAIN raw : raw[k] # None} |-> raw[d]]

\* C27: a raw map in which a dataset id is present but holds None is handled
\* like one without that dataset: the three index computations complete, and
\* the USMI components are those of the map without the entry.
C27_NoneHandledLikeMissing ==
    HasNoneEntry(raw_data) =>
        /\ usmi # NotComputed =>
              /\ ~TaskRaised(usmi)
              /\ usmi.components =
                    compute_unified_soil_moisture_index(DropNone(raw_data)).components
        /\ awli # NotComputed => ~TaskRaised(awli)
        /\ paoi # NotComputed => ~TaskRaised(paoi)

\* The two quality functions do take None: weight 0.8 and the flag
\* 'missing'; and an index computation completes on a map with None entries
\* when it reads none of them.
NoneEntryQualityDefaults ==
    /\ \A d \in DOMAIN raw_data :
          raw_data[d] = None =>
              /\ assess_data_quality(raw_data)[d] = R(8, 10)
              /\ generate_quality_flags(raw_data)[d].quality_flag = "missing"
    /\ usmi # NotComputed => (TaskRaised(usmi) <=> reads_none(raw_data, UsmiDatasets))
    /\ paoi # NotComputed => (TaskRaised(paoi) <=> reads_none(raw_data, PaoiDatasets))

(***************************************************************************)
(* Claims about the WebSocket service.                                     *)
(***************************************************************************)

\* The ids held by any of the three registries.
RegisteredIds ==
    {active_connections[i].id : i \in 1..Len(active_connections)}
        \cup DOMAIN websocket_farms
        \cup UNION {SeqRange(farm_subscriptions[f]) : f \in DOMAIN farm_subscriptions}

Occurrences(l, x) == Cardinality({i \in 1..Len(l) : l[i] = x})

RunningHandlers == {h \in Handlers : ws_handlers[h].pc = "running"}

\* No two clients were given the same connection id.
IdsDistinct ==
    \A g, h \in Handlers :
        (g # h /\ ws_handlers[g].pc # "idle" /\ ws_handlers[h].pc # "idle")
            => ws_handlers[g].registered # ws_handlers[h].registered

\* C28: once the handler of a connection has ended, the connection is in none
\* of active_connections, websocket_farms and farm_subscriptions, and the
\* registered connections never outnumber the running handlers.
C28_EndedHandlerDeregistered ==
    /\ \A h \in Handlers :
          ws_handlers[h].pc = "ended" => ws_handlers[h].registered \notin RegisteredIds
    /\ Len(active_connections) <= Cardinality(RunningHandlers)

\* What the handler's finally clause does: it calls disconnect with the value
\* connect returned, None, which is no registered id, and changes nothing.
FinallyDisconnectsNothing ==
    [][\A h \in Handlers :
          (ws_handlers[h].pc = "running" /\ ws_handlers'[h].pc = "ended")
              => /\ ws_handlers[h].connection_id = NoConnectionId
                 /\ active_connections' = active_connections
                 /\ farm_subscriptions' = farm_subscriptions
                 /\ websocket_farms' = websocket_farms]_vars

RegistriesAgree ==
    /\ \A id \in RegisteredIds :
          /\ InActive(active_connections, id) <=> id \in DOMAIN websocket_farms
          /\ InActive(active_connections, id) <=>
                (id[1] \in DOMAIN farm_subscriptions
                    /\ Occurrences(farm_subscriptions[id[1]], id) = 1)
          /\ \A f \in DOMAIN farm_subscriptions \ {id[1]} :
                Occurrences(farm_subscriptions[f], id) = 0
    /\ \A f \in DOMAIN farm_subscriptions : farm_subscriptions[f] # <<>>

\* C29: after any sequence of connect, disconnect and failed sends the three
\* registries agree: an id is in active_connections iff it is in
\* websocket_farms iff it appears exactly once in the farm_subscriptions list
\* of its farm, and farm_subscriptions holds no empty list.
C29_RegistriesAgree == RegistriesAgree

\* The registries do agree for as long as every connect read a different
\* clock value for its farm.
RegistriesAgreeWhileIdsDistinct == IdsDistinct => RegistriesAgree

\* C30: when send_to_farm or broadcast_to_all meets a connection whose send
\* fails, it still delivers the message to every other registered target and
\* completes without error (here: among connections with distinct ids).
C30_FailedSendSparesOthers ==
    (last_send.op # "none" /\ IdsDistinct) =>
        /\ last_send.status = "ok"
        /\ last_send.targets \subseteq last_send.delivered

\* Without a failing connection both loops deliver to every target.
SendWithoutFailureDeliversAll ==
    (last_send.op # "none" /\ last_send.failed = {}) =>
        /\ last_send.status = "ok"
        /\ last_send.targets = last_send.delivered

\* send_to_farm never raises; broadcast_to_all raises as soon as one send failed.
LoopOutcomes ==
    /\ last_send.op = "send_to_farm" => last_send.status = "ok"
    /\ last_send.op = "broadcast_to_all" =>
          (last_send.status = "RuntimeError" <=> last_send.failed # {})

\* send_to_farm passed over a healthy connection of the farm.
FarmLoopSkippedHealthy ==
    /\ last_send.op = "send_to_farm"
    /\ IdsDistinct
    /\ last_send.failed # {}
    /\ ~(last_send.targets \subseteq last_send.delivered)

====
